---- MODULE Spec2Model ----
(***************************************************************************)
(* A model of the DegenShield SDK: the risk aggregator (utils/helpers),    *)
(* the threat detection coordinator and its detectors (threats), the       *)
(* rules engine (rules/engine), the transaction simulator                  *)
(* (simulation/simulator) and the SDK entry point simulateTx (guard).      *)
(*                                                                         *)
(* The module holds several specifications over one set of variables:      *)
(*   SpecScore   calculateRiskScore as a pure function                     *)
(*   SpecLevel   getRiskLevel as a pure function                           *)
(*   SpecRules   RulesEngine.evaluateRules, one rule per step              *)
(*   SpecDetect  ThreatDetector.detectAllThreats on an analysis context    *)
(*   SpecGuard   DegenShield.simulateTx, the whole pipeline                *)
(* Each specification leaves the variables of the others at their idle     *)
(* values.                                                                 *)
(***************************************************************************)
EXTENDS Integers, Sequences, FiniteSets, TLC

VARIABLES
    \* --- SpecScore: inputs and outputs of the two pure functions
    threats,        \* the Array<{severity}> handed to calculateRiskScore
    riskScore,      \* what calculateRiskScore returned for it
    score,          \* the number handed to getRiskLevel
    riskLevel,      \* what getRiskLevel returned for it
    \* --- SpecRules: one RulesEngine and one evaluateRules call
    rules,          \* RulesEngine.rules: the Map's entries, in insertion order
    evalPc,         \* "idle" | "awaiting" | "returned": where evaluateRules is
    evalSim,        \* evaluateRules: parameter simulation
    evalCtx,        \* evaluateRules: parameter context
    evalIdx,        \* entries of rules.values() the loop's iterator has passed
    evalRule,       \* the loop variable rule while its condition is awaited
    evalThreats,    \* evaluateRules: local threats
    condCalls,      \* the rules whose condition this call has invoked, in order
    evalOther,      \* a second evaluateRules call on the engine: its place and locals
    \* --- SpecDetect: one ThreatDetector.detectAllThreats call
    detPc,          \* "idle" | "returned" | "rejected"
    detInput,       \* its parameters: transaction, simulation, userWallet
    detAll,         \* detectAllThreats: local allThreats
    detOut,         \* what the call returned (uniqueThreats)
    \* --- SpecGuard: one DegenShield and one simulateTx call
    webhookManager, \* DegenShield.webhookManager: is one configured
    guardPc,        \* where simulateTx is: "idle", "simulate", "customRules",
                    \* "engineRules", "score", "webhook", "returned", "rejected"
    guardCall,      \* simulateTx: parameters transaction and options
    rpcResponse,    \* what connection.simulateTransaction did in this run
    simulated,      \* what this.simulator.simulate returned
    guardResult,    \* simulateTx: local variable result
    webhookSent,    \* "none" | "sent" | "failed": the sendWebhook call of this run
    \* --- SpecRegistry: the last operation on the rule registry (rules)
    regOp,          \* the operation, its arguments and what it returned
    regBefore,      \* this.rules as it was when the operation was called
    \* --- SpecWebhook: one WebhookManager and its sendWebhook calls
    whConfig,       \* WebhookManager.config
    rateLimitCount, \* WebhookManager.rateLimitCount: key -> count
    now,            \* Date.now() of the last sendWebhook call, in milliseconds
    whPc,           \* "idle", "fetching", "backoff", "returned", "rejected"
    whCall,         \* sendWebhook: its parameters and the locals of its first part
    whAttempt,      \* sendRequest: attempt
    whPosts,        \* the POST requests this call has made: their endpoints
    whWaits,        \* the backoff waits this call has made, in milliseconds
    whAccepted,     \* per (endpoint, minute bucket): the calls checkRateLimit let pass
    whCalls,        \* the number of sendWebhook calls made so far
    whInFlight      \* the sendWebhook calls suspended in sendRequest while others run

scoreVars == <<threats, riskScore, score, riskLevel>>

ruleVars == <<rules, evalPc, evalSim, evalCtx, evalIdx, evalRule, evalThreats, condCalls,
             evalOther>>

detVars == <<detPc, detInput, detAll, detOut>>

guardVars == <<webhookManager, guardPc, guardCall, rpcResponse, simulated, guardResult, webhookSent>>

regVars == <<regOp, regBefore>>

whVars == <<whConfig, rateLimitCount, now, whPc, whCall, whAttempt, whPosts, whWaits,
            whAccepted, whCalls, whInFlight>>

vars == <<scoreVars, ruleVars, detVars, guardVars, regVars, whVars>>

(***************************************************************************)
(* Bounds of the model.                                                    *)
(***************************************************************************)
MaxThreats == 5      \* longest threat array handed to calculateRiskScore
MaxScore == 130      \* largest number handed to getRiskLevel
MaxSolTransfers == 2 \* most SOL transfers of an analysed simulation
MaxChanges == 2      \* most authority changes of an analysed simulation
MaxPrograms == 2     \* most invoked programs of an analysed simulation
MaxInstructions == 4 \* most instructions of an analysed transaction

NULL == "null"

\* No sendWebhook call is in progress: the call record with no field.
NoCall == [pending |-> FALSE]

\* No second evaluateRules call is in progress.  began keeps where the first call was
\* when the second was made.
NoEval ==
    [pc |-> "idle", sim |-> NULL, ctx |-> NULL, idx |-> 0, rule |-> NULL, threats |-> <<>>,
     began |-> "idle"]

(***************************************************************************)
(* simulation/types.ts: Threat.severity.  calculateRiskScore accepts any   *)
(* string as severity (Array<{ severity: string }>), so one string outside *)
(* the enumeration is part of the inputs.                                  *)
(***************************************************************************)
Severities == {"LOW", "MEDIUM", "HIGH", "CRITICAL"}

SeverityStrings == Severities \cup {"INFO"}

Min(a, b) == IF a < b THEN a ELSE b

(***************************************************************************)
(* utils/helpers.ts: calculateRiskScore.  The switch of the loop body.     *)
(***************************************************************************)
SeverityPoints_NoLow(severity) ==
    CASE severity = "CRITICAL" -> 30
      [] severity = "HIGH"     -> 20
      [] severity = "MEDIUM"   -> 10
      [] OTHER                 -> 0

SeverityPoints(severity) ==
    CASE severity = "CRITICAL" -> 30
      [] severity = "HIGH"     -> 20
      [] severity = "MEDIUM"   -> 10
      [] severity = "LOW"      -> 5
      [] OTHER                 -> 0

\* let score = 0; for (const threat of threats) score += ...
RECURSIVE SumPoints(_)
SumPoints(ts) ==
    IF ts = <<>> THEN 0
    ELSE SumPoints(SubSeq(ts, 1, Len(ts) - 1)) + SeverityPoints(ts[Len(ts)].severity)

\* A risk score that wraps around instead of stopping at the cap.
calculateRiskScore_Wrap(ts) == SumPoints(ts) % 101

\* return Math.min(100, score)
calculateRiskScore(ts) == Min(100, SumPoints(ts))

(***************************************************************************)
(* utils/helpers.ts: getRiskLevel.                                         *)
(***************************************************************************)
getRiskLevel_StrictHigh(s) ==
    IF s >= 80 THEN "CRITICAL"
    ELSE IF s > 50 THEN "HIGH"
    ELSE IF s >= 20 THEN "MEDIUM"
    ELSE "LOW"

getRiskLevel(s) ==
    IF s >= 80 THEN "CRITICAL"
    ELSE IF s >= 50 THEN "HIGH"
    ELSE IF s >= 20 THEN "MEDIUM"
    ELSE "LOW"

(***************************************************************************)
(* SpecScore: calculateRiskScore applied to bounded threat arrays.          *)
(* SpecLevel: getRiskLevel applied to bounded numbers.                     *)
(***************************************************************************)
IdleScore ==
    /\ threats = <<>>
    /\ riskScore = calculateRiskScore(<<>>)
    /\ score = 0
    /\ riskLevel = getRiskLevel(0)

IdleRules ==
    /\ rules = <<>>
    /\ evalPc = "idle"
    /\ evalSim = NULL
    /\ evalCtx = NULL
    /\ evalIdx = 0
    /\ evalRule = NULL
    /\ evalThreats = <<>>
    /\ condCalls = <<>>
    /\ evalOther = NoEval

IdleDetect ==
    /\ detPc = "idle"
    /\ detInput = NULL
    /\ detAll = <<>>
    /\ detOut = <<>>

IdleGuard ==
    /\ webhookManager = FALSE
    /\ guardPc = "idle"
    /\ guardCall = NULL
    /\ rpcResponse = NULL
    /\ simulated = NULL
    /\ guardResult = NULL
    /\ webhookSent = "none"

IdleRegistry ==
    /\ regOp = NULL
    /\ regBefore = <<>>

IdleWebhook ==
    /\ whConfig = NULL
    /\ rateLimitCount = <<>>
    /\ now = 0
    /\ whPc = "idle"
    /\ whCall = NoCall
    /\ whAttempt = 0
    /\ whPosts = <<>>
    /\ whWaits = <<>>
    /\ whAccepted = <<>>
    /\ whCalls = 0
    /\ whInFlight = <<>>

InitScore == IdleScore /\ IdleRules /\ IdleDetect /\ IdleGuard /\ IdleRegistry /\ IdleWebhook

\* Insert one element at position i (1 .. Len+1) of a sequence.
InsertAt(s, i, e) == SubSeq(s, 1, i - 1) \o <<e>> \o SubSeq(s, i, Len(s))

\* A caller grows the threat array by one threat and scores it again.
ScoreThreats ==
    /\ Len(threats) < MaxThreats
    /\ \E sev \in SeverityStrings, i \in 1..(Len(threats) + 1) :
          /\ threats' = InsertAt(threats, i, [severity |-> sev])
          /\ riskScore' = calculateRiskScore(threats')
    /\ UNCHANGED <<score, riskLevel, ruleVars, detVars, guardVars, regVars, whVars>>

\* A caller asks for the level of a number.
LevelOfScore ==
    /\ \E s \in 0..MaxScore :
          /\ score' = s
          /\ riskLevel' = getRiskLevel(s)
    /\ UNCHANGED <<threats, riskScore, ruleVars, detVars, guardVars, regVars, whVars>>

NextScore == ScoreThreats

SpecScore == InitScore /\ [][NextScore]_vars

NextLevel == LevelOfScore

SpecLevel == InitScore /\ [][NextLevel]_vars

\* Number of threats of one severity in a threat array.
CountSeverity(ts, sev) == Cardinality({i \in 1..Len(ts) : ts[i].severity = sev})

\* C1: for every threat array, calculateRiskScore returns
\* min(100, 30*#CRITICAL + 20*#HIGH + 10*#MEDIUM + 5*#LOW), an integer in [0,100].
C1_ScoreFormula ==
    /\ riskScore = Min(100, 30 * CountSeverity(threats, "CRITICAL")
                            + 20 * CountSeverity(threats, "HIGH")
                            + 10 * CountSeverity(threats, "MEDIUM")
                            + 5 * CountSeverity(threats, "LOW"))
    /\ riskScore \in 0..100

\* The cap is reached: the plain sum is above 100, with several severities present.
C1_Witness ==
    /\ SumPoints(threats) > 100
    /\ riskScore = 100
    /\ \A sev \in {"CRITICAL", "HIGH", "LOW"} : CountSeverity(threats, sev) > 0

\* C2: adding any threat to any threat array never decreases the score.
C2_Monotonic ==
    \A sev \in SeverityStrings, i \in 1..(Len(threats) + 1) :
        calculateRiskScore(InsertAt(threats, i, [severity |-> sev])) >= riskScore

\* A threat was added below the cap (the score grew) and one at the cap (it stayed).
C2_Witness ==
    /\ Len(threats) >= 2
    /\ riskScore = 100
    /\ calculateRiskScore(SubSeq(threats, 1, Len(threats) - 1)) < 100

\* The step function of the claim, written from the intervals.
LevelByInterval(s) ==
    CASE s \in 0..19   -> "LOW"
      [] s \in 20..49  -> "MEDIUM"
      [] s \in 50..79  -> "HIGH"
      [] s \in 80..100 -> "CRITICAL"
      [] OTHER         -> "NONE"

\* C3: getRiskLevel is LOW on [0,20), MEDIUM on [20,50), HIGH on [50,80) and
\* CRITICAL on [80,100].
C3_LevelSteps ==
    score \in 0..100 => riskLevel = LevelByInterval(score)

\* A boundary of the step function has been asked for.
C3_Witness ==
    /\ score = 50
    /\ riskLevel = "HIGH"

(***************************************************************************)
(* simulation/types.ts: SimulationResult, as far as detectors, rules and   *)
(* the risk aggregator read it.  Public keys are strings.                  *)
(***************************************************************************)
SimulationResult(success, logs, solTransfers, tokenTransfers, invoked, suspiciousCalls, ths) ==
    [ riskScore   |-> calculateRiskScore(ths),
      riskLevel   |-> getRiskLevel(calculateRiskScore(ths)),
      threats     |-> ths,
      simulation  |-> [success |-> success, logs |-> logs],
      financial   |-> [solTransfers |-> solTransfers, tokenTransfers |-> tokenTransfers],
      programs    |-> [invoked |-> invoked, suspiciousCalls |-> suspiciousCalls],
      authorityChanges |-> <<>> ]

\* simulation/types.ts: ProgramInvocation
ProgramInvocation(programId, name, verified, reputation) ==
    [programId |-> programId, name |-> name, verified |-> verified, reputation |-> reputation]

(***************************************************************************)
(* Lamport amounts exceed 32 bits, so an amount is [sol, lamports] with    *)
(* lamports < LAMPORTS_PER_SOL: the number sol * 1e9 + lamports.           *)
(***************************************************************************)
LAMPORTS_PER_SOL == 1000000000

Lamports(sol, lamports) == [sol |-> sol, lamports |-> lamports]

\* sum + transfer.amount
AddLamports(a, b) ==
    [ sol      |-> a.sol + b.sol + ((a.lamports + b.lamports) \div LAMPORTS_PER_SOL),
      lamports |-> (a.lamports + b.lamports) % LAMPORTS_PER_SOL ]

GreaterLamports_OrEqual(a, b) ==
    \/ a.sol > b.sol
    \/ a.sol = b.sol /\ a.lamports >= b.lamports

\* a > b
GreaterLamports(a, b) ==
    \/ a.sol > b.sol
    \/ a.sol = b.sol /\ a.lamports > b.lamports

\* utils/constants.ts: THRESHOLDS.EXCESSIVE_SOL_TRANSFER = 10 * 1e9
EXCESSIVE_SOL_TRANSFER == Lamports(10, 0)

\* solTransfers.reduce((sum, transfer) => sum + transfer.amount, 0)
RECURSIVE SumAmounts(_)
SumAmounts(transfers) ==
    IF transfers = <<>> THEN Lamports(0, 0)
    ELSE AddLamports(SumAmounts(SubSeq(transfers, 1, Len(transfers) - 1)),
                     transfers[Len(transfers)].amount)

(***************************************************************************)
(* rules/engine.ts: RulesEngine.                                           *)
(*                                                                         *)
(* A RiskRule is a record with the fields name, severity, condition,       *)
(* message and metadata and, when set, blocking and applicableTo.          *)
(* condition is a callable; the model keeps what a call of it does:        *)
(*   "true" / "false"                  returns the boolean                 *)
(*   "throws"                          throws before returning             *)
(*   "resolvesTrue" / "resolvesFalse"  returns a promise of the boolean    *)
(*   "rejects"                         returns a promise that rejects      *)
(* message is [static |-> text] or [fn |-> f]; calling the function        *)
(* "throws" raises, calling any other returns a text made from the         *)
(* simulation.                                                             *)
(***************************************************************************)
RuleNames == {"a", "b", "c"}

RuleBehaviours ==
    { [severity |-> "HIGH", condition |-> "true", message |-> [static |-> "blocked"],
       blocking |-> TRUE, metadata |-> "m1"],
      [severity |-> "LOW", condition |-> "resolvesFalse", message |-> [static |-> "quiet"],
       applicableTo |-> <<>>, metadata |-> "m2"],
      [severity |-> "CRITICAL", condition |-> "throws", message |-> [static |-> "broken"],
       blocking |-> FALSE, applicableTo |-> <<"P2">>, metadata |-> "m3"],
      [severity |-> "MEDIUM", condition |-> "resolvesTrue", message |-> [fn |-> "describe"],
       applicableTo |-> <<"P1">>, metadata |-> "m4"],
      [severity |-> "HIGH", condition |-> "rejects", message |-> [static |-> "rejected"],
       metadata |-> "m5"],
      [severity |-> "LOW", condition |-> "true", message |-> [fn |-> "throws"],
       blocking |-> TRUE, applicableTo |-> <<"P2", "P1">>, metadata |-> "m6"],
      [severity |-> "MEDIUM", condition |-> "false", message |-> [static |-> "never"],
       blocking |-> TRUE, metadata |-> "m7"] }

\* A record extended by one field (an object literal with a spread).
WithField(r, k, v) == [f \in DOMAIN r \cup {k} |-> IF f = k THEN v ELSE r[f]]

RuleInputs == { WithField(b, "name", n) : n \in RuleNames, b \in RuleBehaviours }

\* The simulations and rule contexts handed to evaluateRules.
InvokedInputs ==
    { <<>>,
      <<ProgramInvocation("P1", "Token Program", TRUE, 100)>>,
      <<ProgramInvocation("P3", "Unknown Program", FALSE, 0)>>,
      <<ProgramInvocation("P3", "Unknown Program", FALSE, 0),
        ProgramInvocation("P2", "Jupiter Aggregator", TRUE, 95)>> }

RuleSimulations ==
    { SimulationResult(TRUE, <<>>, <<>>, <<>>, inv, <<>>, <<>>) : inv \in InvokedInputs }

RuleContexts == { [userWallet |-> "W"] }

\* Map.prototype.has / get: the position of a key among the entries, 0 when absent.
KeyIndex(entries, key) ==
    IF \E i \in 1..Len(entries) : entries[i].key = key
    THEN CHOOSE i \in 1..Len(entries) : entries[i].key = key
    ELSE 0

\* Map.prototype.set if it moved a key that is set again behind all others.
MapSet_MoveToEnd(entries, key, value) ==
    Append(SelectSeq(entries, LAMBDA e : e.key # key), [key |-> key, value |-> value])

\* Map.prototype.set: an existing key keeps its place, a new key goes last.
MapSet(entries, key, value) ==
    IF KeyIndex(entries, key) > 0
    THEN [entries EXCEPT ![KeyIndex(entries, key)] = [key |-> key, value |-> value]]
    ELSE Append(entries, [key |-> key, value |-> value])

\* Map.prototype.delete
MapDelete(entries, key) ==
    LET p == KeyIndex(entries, key) IN
    IF p = 0 THEN entries
    ELSE SubSeq(entries, 1, p - 1) \o SubSeq(entries, p + 1, Len(entries))

\* evaluateRules, lines 115-119: does the loop go on to the rule's condition?
isApplicable_Always(rule, sim) == TRUE

isApplicable(rule, sim) ==
    IF "applicableTo" \in DOMAIN rule /\ Len(rule.applicableTo) > 0
    THEN LET invokedPrograms == { sim.programs.invoked[i].programId :
                                     i \in 1..Len(sim.programs.invoked) }
         IN \E j \in 1..Len(rule.applicableTo) : rule.applicableTo[j] \in invokedPrograms
    ELSE TRUE

\* try { ... } catch (error) { console.warn(...) }, lines 123-152: what becomes of
\* an exception raised in the loop body.
CatchRuleError_Propagate(raised) == IF raised THEN "rejected" ELSE "continue"

CatchRuleError(raised) == "continue"

\* rules/engine.ts: the whitelist of the built-in rule 'whitelist-programs-only'.  "P1" stands for
\* the SPL Token program and "ATA" for the Associated Token program.
WHITELIST == {"P1", "ATA"}

\* await rule.condition(simulation, context): "truthy", "falsy" or "raised".
\* "largeSol" and "whitelist" are the conditions of the two built-in rules.
ConditionResult(rule, sim) ==
    CASE rule.condition \in {"true", "resolvesTrue"}   -> "truthy"
      [] rule.condition \in {"false", "resolvesFalse"} -> "falsy"
      [] rule.condition \in {"throws", "rejects"}      -> "raised"
      [] rule.condition = "largeSol" ->
            IF GreaterLamports(SumAmounts(sim.financial.solTransfers), Lamports(10, 0))
            THEN "truthy" ELSE "falsy"
      [] rule.condition = "whitelist" ->
            IF \E i \in 1..Len(sim.programs.invoked) :
                  sim.programs.invoked[i].programId \notin WHITELIST
            THEN "truthy" ELSE "falsy"

\* typeof rule.message === 'function' ? rule.message(simulation) : rule.message
MessageRaises(rule) == "fn" \in DOMAIN rule.message /\ rule.message.fn = "throws"

ResolveMessage(rule, sim) ==
    IF "fn" \in DOMAIN rule.message
    THEN <<rule.message.fn, "(simulation)">>
    ELSE <<rule.message.static>>

\* threats.push({ type: 'CUSTOM_RULE_VIOLATION', ... }), lines 132-146
RuleThreat_NeverBlocking(rule, sim, ctx) ==
    [ type             |-> "CUSTOM_RULE_VIOLATION",
      severity         |-> rule.severity,
      title            |-> <<"Custom Rule Violation: ", rule.name>>,
      description      |-> <<"violated">>,
      affectedAccounts |-> <<ctx.userWallet>>,
      evidence         |-> [data |-> [ruleName |-> rule.name, metadata |-> NULL]],
      blockedByDefault |-> FALSE ]

RuleThreat(rule, sim, ctx) ==
    [ type             |-> "CUSTOM_RULE_VIOLATION",
      severity         |-> rule.severity,
      title            |-> <<"Custom Rule Violation: ", rule.name>>,
      description      |-> ResolveMessage(rule, sim),
      affectedAccounts |-> <<ctx.userWallet>>,
      evidence         |-> [data |-> [ruleName |-> rule.name,
                                      metadata |-> IF "metadata" \in DOMAIN rule
                                                   THEN rule.metadata ELSE NULL]],
      blockedByDefault |-> IF "blocking" \in DOMAIN rule THEN rule.blocking ELSE FALSE ]

\* Lines 126-152 once the awaited condition of a rule has settled: the threats
\* array afterwards, and whether an exception left the try statement.
Settle(rule, sim, ctx, ths) ==
    LET result == ConditionResult(rule, sim)
        raised == result = "raised" \/ (result = "truthy" /\ MessageRaises(rule))
    IN [ rejected |-> raised /\ CatchRuleError(TRUE) # "continue",
         threats  |-> IF result = "truthy" /\ ~raised
                      THEN Append(ths, RuleThreat(rule, sim, ctx))
                      ELSE ths ]

\* The loop of evaluateRules from iterator position idx up to its next await, its
\* return or an exception leaving it: the rules passed over are those out of scope
\* and those whose condition throws before any promise is awaited.
RECURSIVE RunLoop(_, _, _, _)
RunLoop(entries, sim, idx, calls) ==
    IF idx >= Len(entries)
    THEN [pc |-> "returned", idx |-> idx, rule |-> NULL, calls |-> calls]
    ELSE LET rule == entries[idx + 1].value IN
         IF ~isApplicable(rule, sim)
         THEN RunLoop(entries, sim, idx + 1, calls)
         ELSE IF rule.condition = "throws"
         THEN IF CatchRuleError(TRUE) = "continue"
              THEN RunLoop(entries, sim, idx + 1, Append(calls, rule))
              ELSE [pc |-> "rejected", idx |-> idx + 1, rule |-> NULL,
                    calls |-> Append(calls, rule)]
         ELSE [pc |-> "awaiting", idx |-> idx + 1, rule |-> rule,
               calls |-> Append(calls, rule)]

\* constructor(rules = []): the engine of this specification starts empty.
InitRules == IdleScore /\ IdleRules /\ IdleDetect /\ IdleGuard /\ IdleRegistry
                /\ IdleWebhook

\* addRule(rule), called while no evaluateRules call is in flight.
addRule ==
    /\ evalPc = "idle"
    /\ \E rule \in RuleInputs :
          rules' = MapSet(rules, rule.name, rule)
    /\ UNCHANGED <<evalPc, evalSim, evalCtx, evalIdx, evalRule, evalThreats, condCalls, evalOther, scoreVars, detVars, guardVars, regVars, whVars>>

\* removeRule(name), called while no evaluateRules call is in flight.
removeRule ==
    /\ evalPc = "idle"
    /\ \E name \in RuleNames :
          rules' = MapDelete(rules, name)
    /\ UNCHANGED <<evalPc, evalSim, evalCtx, evalIdx, evalRule, evalThreats, condCalls, evalOther, scoreVars, detVars, guardVars, regVars, whVars>>

\* evaluateRules(simulation, context) is called and runs to its first await.
evaluateRules ==
    /\ evalPc = "idle"
    /\ \E sim \in RuleSimulations, ctx \in RuleContexts :
          LET run == RunLoop(rules, sim, 0, <<>>) IN
          /\ evalSim' = sim
          /\ evalCtx' = ctx
          /\ evalThreats' = <<>>
          /\ evalPc' = run.pc
          /\ evalIdx' = run.idx
          /\ evalRule' = run.rule
          /\ condCalls' = run.calls
    /\ UNCHANGED <<rules, evalOther, scoreVars, detVars, guardVars, regVars, whVars>>

\* The awaited condition settles: lines 124-152 for the awaited rule, then the loop
\* runs on to its next await or to the return.
conditionSettles ==
    /\ evalPc = "awaiting"
    /\ LET settled == Settle(evalRule, evalSim, evalCtx, evalThreats)
           run     == RunLoop(rules, evalSim, evalIdx, condCalls)
       IN IF settled.rejected
          THEN /\ evalPc' = "rejected"
               /\ UNCHANGED <<evalIdx, evalRule, evalThreats, condCalls>>
          ELSE /\ evalThreats' = settled.threats
               /\ evalPc' = run.pc
               /\ evalIdx' = run.idx
               /\ evalRule' = run.rule
               /\ condCalls' = run.calls
    /\ UNCHANGED <<rules, evalSim, evalCtx, evalOther, scoreVars, detVars, guardVars,
                 regVars, whVars>>

\* The caller of evaluateRules takes the settled promise.
evaluateRulesDone ==
    /\ evalPc \in {"returned", "rejected"}
    /\ evalPc' = "idle"
    /\ evalSim' = NULL
    /\ evalCtx' = NULL
    /\ evalIdx' = 0
    /\ evalRule' = NULL
    /\ evalThreats' = <<>>
    /\ condCalls' = <<>>
    /\ UNCHANGED <<rules, evalOther, scoreVars, detVars, guardVars, regVars, whVars>>

NextRules ==
    \/ addRule
    \/ removeRule
    \/ evaluateRules
    \/ conditionSettles
    \/ evaluateRulesDone

SpecRules == InitRules /\ [][NextRules]_vars

\* The scoped-out case of the claim, written from the claim: the rule names programs
\* and none of them is a program the simulation invoked.
ScopedOut(rule, sim) ==
    /\ "applicableTo" \in DOMAIN rule
    /\ rule.applicableTo # <<>>
    /\ \A j \in 1..Len(rule.applicableTo), i \in 1..Len(sim.programs.invoked) :
          sim.programs.invoked[i].programId # rule.applicableTo[j]

\* C9: a rule with a non-empty applicableTo, evaluated against a simulation none of
\* whose invoked programs is listed, never produces a threat and its condition is
\* never invoked, whatever the condition would return.
C9_RuleScoping ==
    evalPc # "idle" =>
        \A i \in 1..Len(rules) :
            ScopedOut(rules[i].value, evalSim) =>
                /\ \A c \in 1..Len(condCalls) : condCalls[c] # rules[i].value
                /\ \A t \in 1..Len(evalThreats) :
                      evalThreats[t].evidence.data.ruleName # rules[i].value.name

\* An evaluation has returned a threat of another rule although the engine holds a
\* scoped-out rule whose condition is true and one whose condition throws, against
\* a simulation that did invoke programs.
C9_Witness ==
    /\ evalPc = "returned"
    /\ evalSim.programs.invoked # <<>>
    /\ Len(evalThreats) > 0
    /\ \E i, j \in 1..Len(rules) :
          /\ ScopedOut(rules[i].value, evalSim)
          /\ rules[i].value.condition = "true"
          /\ ScopedOut(rules[j].value, evalSim)
          /\ rules[j].value.condition = "throws"

\* Does a rule raise when it is evaluated: its condition throws or rejects, or its
\* condition holds and its message function throws.
RuleRaises(rule) ==
    \/ rule.condition \in {"throws", "rejects"}
    \/ /\ rule.condition \in {"true", "resolvesTrue"}
       /\ "fn" \in DOMAIN rule.message
       /\ rule.message.fn = "throws"

\* The rules of the engine that a call must evaluate: all but the scoped-out ones.
RulesInScope(sim) ==
    SelectSeq([i \in 1..Len(rules) |-> rules[i].value], LAMBDA r : ~ScopedOut(r, sim))

\* Among them, the names of those that must contribute a threat, in order.
ViolatedNames(sim) ==
    LET violated == SelectSeq(RulesInScope(sim),
                        LAMBDA r : r.condition \in {"true", "resolvesTrue"} /\ ~RuleRaises(r))
    IN [i \in 1..Len(violated) |-> violated[i].name]

\* C10: a rule whose condition or message function throws or rejects does not make
\* evaluateRules throw or reject; it contributes no threat, and every other rule in
\* scope is still evaluated and contributes its threat.
C10_RuleIsolation ==
    /\ evalPc # "rejected"
    /\ evalPc = "returned" =>
          /\ condCalls = RulesInScope(evalSim)
          /\ [t \in 1..Len(evalThreats) |-> evalThreats[t].evidence.data.ruleName]
                = ViolatedNames(evalSim)

\* An evaluation has returned in which the second of three rules in scope raised
\* and the first and the third each contributed a threat.
C10_Witness ==
    /\ evalPc = "returned"
    /\ Len(condCalls) = 3
    /\ RuleRaises(condCalls[2])
    /\ ViolatedNames(evalSim) = <<condCalls[1].name, condCalls[3].name>>
    /\ Len(evalThreats) = 2

\* The threats of an evaluation that carry the name of the rule.
ThreatsOfRule(ths, rule) ==
    SelectSeq(ths, LAMBDA t : t.evidence.data.ruleName = rule.name)

\* What the threat of a violated rule must carry: the kind, the severity of the
\* rule, the wallet of the context alone, and the blocking flag (false if absent).
CarriesRule(threat, rule, ctx) ==
    /\ threat.type = "CUSTOM_RULE_VIOLATION"
    /\ threat.severity = rule.severity
    /\ threat.affectedAccounts = <<ctx.userWallet>>
    /\ threat.blockedByDefault = ("blocking" \in DOMAIN rule /\ rule.blocking)

ResolvesTruthy(rule) == rule.condition \in {"true", "resolvesTrue"}

ResolvesFalsy(rule) == rule.condition \in {"false", "resolvesFalse"}

\* C11 as stated: every rule in scope whose condition resolves truthy has exactly
\* one threat in the result, carrying the rule; a falsy one has none.
C11_EveryTruthyRuleEmits ==
    evalPc = "returned" =>
        \A i \in 1..Len(rules) :
            LET rule == rules[i].value
                own  == ThreatsOfRule(evalThreats, rule)
            IN /\ (~ScopedOut(rule, evalSim) /\ ResolvesTruthy(rule)) =>
                      (Len(own) = 1 /\ CarriesRule(own[1], rule, evalCtx))
               /\ ResolvesFalsy(rule) => own = <<>>

\* C11, amended: every rule in scope whose condition resolves truthy and whose
\* message function does not throw has exactly one threat in the result, of kind
\* CUSTOM_RULE_VIOLATION with the rule's severity, the context's wallet as the only
\* affected account and blockedByDefault equal to the blocking flag (false when
\* absent); a rule whose condition resolves falsy has none.
C11_TruthyRuleEmitsOne ==
    evalPc = "returned" =>
        \A i \in 1..Len(rules) :
            LET rule == rules[i].value
                own  == ThreatsOfRule(evalThreats, rule)
            IN /\ (~ScopedOut(rule, evalSim) /\ ResolvesTruthy(rule) /\ ~RuleRaises(rule)) =>
                      (Len(own) = 1 /\ CarriesRule(own[1], rule, evalCtx))
               /\ ResolvesFalsy(rule) => own = <<>>

\* An evaluation has returned the threats of a blocking rule and of a rule without
\* a blocking flag, next to a rule whose condition resolved falsy.
C11_Witness ==
    /\ evalPc = "returned"
    /\ Len(evalThreats) = 2
    /\ evalThreats[1].blockedByDefault # evalThreats[2].blockedByDefault
    /\ \E i, j, k \in 1..Len(rules) :
          /\ ResolvesTruthy(rules[i].value) /\ "blocking" \in DOMAIN rules[i].value
          /\ rules[i].value.blocking
          /\ ResolvesTruthy(rules[j].value) /\ "blocking" \notin DOMAIN rules[j].value
          /\ ~ScopedOut(rules[j].value, evalSim)
          /\ ResolvesFalsy(rules[k].value)

(***************************************************************************)
(* threats: the four detectors and ThreatDetector.                         *)
(*                                                                         *)
(* A detector is a synchronous function; a call either returns its threats *)
(* or raises (a TypeError on a field that is not the PublicKey its type    *)
(* promises): [raised |-> BOOLEAN, threats |-> sequence].  A Threat keeps  *)
(* type, severity, title, description, affectedAccounts, evidence and      *)
(* blockedByDefault; recommendation is a text fixed by the same data and   *)
(* is left out.  Texts are sequences of their pieces.                      *)
(***************************************************************************)
\* simulation.authorityChanges?.filter(...) ?? []: the field may be missing.
AuthorityChangesOf(sim) ==
    IF "authorityChanges" \in DOMAIN sim THEN sim.authorityChanges ELSE <<>>

\* threats/wallet-drainer.ts: detectWalletDrain
detectWalletDrain(sim, userWallet) ==
    LET totalSolTransferred == SumAmounts(sim.financial.solTransfers)
        tokenTransfers      == sim.financial.tokenTransfers
        \* t.from.equals(userWallet) on a transfer without a from key
        raised              == \E i \in 1..Len(tokenTransfers) : tokenTransfers[i].from = NULL
        outgoingTransfers   == SelectSeq(tokenTransfers, LAMBDA t : t.from = userWallet)
        closedAccounts      == SelectSeq(AuthorityChangesOf(sim),
                                         LAMBDA change : change.authorityType = "Close")
        excessive ==
            IF GreaterLamports(totalSolTransferred, EXCESSIVE_SOL_TRANSFER)
            THEN << [ type |-> "WALLET_DRAIN", severity |-> "CRITICAL",
                      title |-> <<"Excessive SOL Transfer Detected">>,
                      description |-> <<"exceeds safe threshold">>,
                      affectedAccounts |-> <<userWallet>>,
                      evidence |-> [data |-> [totalSolTransferred |-> totalSolTransferred]],
                      blockedByDefault |-> TRUE ] >>
            ELSE <<>>
        batch ==
            IF Len(outgoingTransfers) > 5
            THEN << [ type |-> "WALLET_DRAIN", severity |-> "HIGH",
                      title |-> <<"Batch Token Transfer Pattern">>,
                      description |-> <<"matches wallet drain patterns">>,
                      affectedAccounts |-> <<userWallet>> \o
                          [i \in 1..Len(outgoingTransfers) |-> outgoingTransfers[i].to],
                      evidence |-> [data |-> [transferCount |-> Len(outgoingTransfers)]],
                      blockedByDefault |-> TRUE ] >>
            ELSE <<>>
        closure ==
            IF Len(closedAccounts) > 0
            THEN << [ type |-> "ACCOUNT_CLOSURE", severity |-> "CRITICAL",
                      title |-> <<"Account Closure Detected">>,
                      description |-> <<"will close account(s)">>,
                      affectedAccounts |->
                          [i \in 1..Len(closedAccounts) |-> closedAccounts[i].account],
                      evidence |-> [data |-> [closedAccounts |-> Len(closedAccounts)]],
                      blockedByDefault |-> TRUE ] >>
            ELSE <<>>
    IN IF raised THEN [raised |-> TRUE, threats |-> <<>>]
       ELSE [raised |-> FALSE, threats |-> excessive \o batch \o closure]

\* threats/phishing.ts: PHISHING_PATTERNS, each /first.*second/i
PHISHING_PATTERNS ==
    << <<"approve", "all">>, <<"unlimited", "approval">>, <<"sign", "everything">>,
       <<"verify", "wallet">>, <<"recover", "account">> >>

\* String.prototype.toLowerCase on the words a log line is made of.
ToLowerCase(word) ==
    CASE word = "Approve" -> "approve"
      [] word = "ALL"     -> "all"
      [] word = "Verify"  -> "verify"
      [] OTHER            -> word

\* logs.join(' ').toLowerCase(): a log line is a sequence of words.
RECURSIVE JoinLogs(_)
JoinLogs(logs) ==
    IF logs = <<>> THEN <<>>
    ELSE LET rest == JoinLogs(SubSeq(logs, 1, Len(logs) - 1))
             line == logs[Len(logs)]
         IN rest \o [i \in 1..Len(line) |-> ToLowerCase(line[i])]

\* pattern.test(allLogs): the first word, then anything, then the second word.
PatternTest(pattern, allLogs) ==
    \E i, j \in 1..Len(allLogs) :
        i < j /\ allLogs[i] = pattern[1] /\ allLogs[j] = pattern[2]

\* threats/phishing.ts: detectPhishing
detectPhishing(numInstructions, sim) ==
    LET allLogs == JoinLogs(sim.simulation.logs)
        matching == {k \in 1..Len(PHISHING_PATTERNS) : PatternTest(PHISHING_PATTERNS[k], allLogs)}
        \* for (const pattern of PHISHING_PATTERNS) { if (test) { push; break } }
        first == CHOOSE k \in matching : \A m \in matching : k <= m
        signature ==
            IF matching # {}
            THEN << [ type |-> "PHISHING_SIGNATURE", severity |-> "HIGH",
                      title |-> <<"Phishing Pattern Detected">>,
                      description |-> <<"matching known phishing patterns: ">>
                                          \o PHISHING_PATTERNS[first],
                      affectedAccounts |-> <<>>,
                      evidence |-> [data |-> [pattern |-> PHISHING_PATTERNS[first]]],
                      blockedByDefault |-> TRUE ] >>
            ELSE <<>>
        \* transaction.instructions.filter(ix => true): every instruction counts
        approveInstructions == numInstructions
        approvals ==
            IF approveInstructions > 3
            THEN << [ type |-> "PHISHING_SIGNATURE", severity |-> "MEDIUM",
                      title |-> <<"Multiple Approval Requests">>,
                      description |-> <<"contains multiple approval requests">>,
                      affectedAccounts |-> <<>>,
                      evidence |-> [data |-> [approvalCount |-> approveInstructions]],
                      blockedByDefault |-> FALSE ] >>
            ELSE <<>>
    IN [raised |-> FALSE, threats |-> signature \o approvals]

DelegateChangeThreats_ElseIf(change, userWallet) ==
    IF change.newAuthority # NULL /\ change.newAuthority # userWallet
    THEN << [ type |-> "DELEGATE_HIJACK", severity |-> "CRITICAL",
              title |-> <<"Unauthorized Delegate Change">>,
              description |-> <<"change token account delegate to ", change.newAuthority>>,
              affectedAccounts |-> <<change.account, change.newAuthority>>,
              evidence |-> [programId |-> change.account,
                            data |-> [oldDelegate |-> change.oldAuthority,
                                      newDelegate |-> change.newAuthority]],
              blockedByDefault |-> TRUE ] >>
    ELSE IF change.requiresAttention
    THEN << [ type |-> "DELEGATE_HIJACK", severity |-> "HIGH",
              title |-> <<"Suspicious Delegate Change">>,
              description |-> <<"potentially unlimited approval">>,
              affectedAccounts |-> <<change.account>>,
              evidence |-> [programId |-> change.account],
              blockedByDefault |-> FALSE ] >>
    ELSE <<>>

\* threats/delegate-hijack.ts: the threats of one delegate change
DelegateChangeThreats(change, userWallet) ==
    LET unauthorized ==
            IF change.newAuthority # NULL /\ change.newAuthority # userWallet
            THEN << [ type |-> "DELEGATE_HIJACK", severity |-> "CRITICAL",
                      title |-> <<"Unauthorized Delegate Change">>,
                      description |-> <<"change token account delegate to ",
                                        change.newAuthority>>,
                      affectedAccounts |-> <<change.account, change.newAuthority>>,
                      evidence |-> [programId |-> change.account,
                                    data |-> [oldDelegate |-> change.oldAuthority,
                                              newDelegate |-> change.newAuthority]],
                      blockedByDefault |-> TRUE ] >>
            ELSE <<>>
        suspicious ==
            IF change.requiresAttention
            THEN << [ type |-> "DELEGATE_HIJACK", severity |-> "HIGH",
                      title |-> <<"Suspicious Delegate Change">>,
                      description |-> <<"potentially unlimited approval">>,
                      affectedAccounts |-> <<change.account>>,
                      evidence |-> [programId |-> change.account],
                      blockedByDefault |-> FALSE ] >>
            ELSE <<>>
    IN unauthorized \o suspicious

RECURSIVE DelegateThreats(_, _)
DelegateThreats(changes, userWallet) ==
    IF changes = <<>> THEN <<>>
    ELSE DelegateThreats(SubSeq(changes, 1, Len(changes) - 1), userWallet)
            \o DelegateChangeThreats(changes[Len(changes)], userWallet)

\* threats/delegate-hijack.ts: detectDelegateHijack
detectDelegateHijack(sim, userWallet) ==
    LET delegateChanges == SelectSeq(AuthorityChangesOf(sim),
                                     LAMBDA change : change.authorityType = "Delegate")
    IN [raised |-> FALSE, threats |-> DelegateThreats(delegateChanges, userWallet)]

ProgramThreats_HighAtZero(program, sim) ==
    LET reputation == IF "reputation" \in DOMAIN program THEN program.reputation ELSE 0
        severity == IF reputation < 30 THEN "HIGH" ELSE "MEDIUM"
        unknown ==
            IF ~program.verified
            THEN << [ type |-> "UNKNOWN_PROGRAM", severity |-> severity,
                      title |-> <<"Unverified Program Interaction">>,
                      description |-> <<"interacts with program ", program.programId>>,
                      affectedAccounts |-> <<program.programId>>,
                      evidence |-> [programId |-> program.programId,
                                    data |-> IF "reputation" \in DOMAIN program
                                             THEN [programName |-> program.name,
                                                   reputation |-> program.reputation]
                                             ELSE [programName |-> program.name]],
                      blockedByDefault |-> reputation < 50 ] >>
            ELSE <<>>
        suspiciousCalls == SelectSeq(sim.programs.suspiciousCalls,
                                     LAMBDA call : call.programId = program.programId)
        cpi == [ i \in 1..Len(suspiciousCalls) |->
                   [ type |-> "SUSPICIOUS_CPI", severity |-> "HIGH",
                     title |-> <<"Suspicious Cross-Program Invocation">>,
                     description |-> <<suspiciousCalls[i].reason>>,
                     affectedAccounts |-> <<program.programId>>,
                     evidence |-> [programId |-> program.programId,
                                   data |-> [reason |-> suspiciousCalls[i].reason]],
                     blockedByDefault |-> FALSE ] ]
    IN unknown \o cpi

\* threats/unknown-program.ts: the threats of one invoked program
ProgramThreats(program, sim) ==
    LET reputation == IF "reputation" \in DOMAIN program THEN program.reputation ELSE 0
        severity == IF reputation = 0 THEN "CRITICAL"
                    ELSE IF reputation < 30 THEN "HIGH"
                    ELSE "MEDIUM"
        unknown ==
            IF ~program.verified
            THEN << [ type |-> "UNKNOWN_PROGRAM", severity |-> severity,
                      title |-> <<"Unverified Program Interaction">>,
                      description |-> <<"interacts with program ", program.programId>>,
                      affectedAccounts |-> <<program.programId>>,
                      evidence |-> [programId |-> program.programId,
                                    data |-> IF "reputation" \in DOMAIN program
                                             THEN [programName |-> program.name,
                                                   reputation |-> program.reputation]
                                             ELSE [programName |-> program.name]],
                      blockedByDefault |-> reputation < 50 ] >>
            ELSE <<>>
        suspiciousCalls == SelectSeq(sim.programs.suspiciousCalls,
                                     LAMBDA call : call.programId = program.programId)
        cpi == [ i \in 1..Len(suspiciousCalls) |->
                   [ type |-> "SUSPICIOUS_CPI", severity |-> "HIGH",
                     title |-> <<"Suspicious Cross-Program Invocation">>,
                     description |-> <<suspiciousCalls[i].reason>>,
                     affectedAccounts |-> <<program.programId>>,
                     evidence |-> [programId |-> program.programId,
                                   data |-> [reason |-> suspiciousCalls[i].reason]],
                     blockedByDefault |-> FALSE ] ]
    IN unknown \o cpi

RECURSIVE AllProgramThreats(_, _)
AllProgramThreats(invoked, sim) ==
    IF invoked = <<>> THEN <<>>
    ELSE AllProgramThreats(SubSeq(invoked, 1, Len(invoked) - 1), sim)
            \o ProgramThreats(invoked[Len(invoked)], sim)

\* threats/unknown-program.ts: detectUnknownPrograms
detectUnknownPrograms(sim) ==
    LET invokedPrograms == sim.programs.invoked
        calls == sim.programs.suspiciousCalls
        \* call.programId.equals(...) on a call without a programId
        raised == /\ invokedPrograms # <<>>
                  /\ \E i \in 1..Len(calls) : calls[i].programId = NULL
    IN IF raised THEN [raised |-> TRUE, threats |-> <<>>]
       ELSE [raised |-> FALSE, threats |-> AllProgramThreats(invokedPrograms, sim)]

\* array.map(a => a.toString()).join(sep): the pieces of the joined string.
RECURSIVE JoinWith(_, _)
JoinWith(items, sep) ==
    IF Len(items) <= 1 THEN items
    ELSE JoinWith(SubSeq(items, 1, Len(items) - 1), sep) \o <<sep, items[Len(items)]>>

\* threats/detector.ts line 84: `${threat.type}-${accounts.join(',')}`
ThreatKey(threat) == <<threat.type, "-">> \o JoinWith(threat.affectedAccounts, ",")

\* threats/detector.ts: deduplicateThreats, the loop over the first n threats.
RECURSIVE DedupLoop(_, _)
DedupLoop(ths, n) ==
    IF n = 0 THEN [seen |-> {}, unique |-> <<>>]
    ELSE LET before == DedupLoop(ths, n - 1)
             key == ThreatKey(ths[n])
         IN IF key \notin before.seen
            THEN [seen |-> before.seen \cup {key}, unique |-> Append(before.unique, ths[n])]
            ELSE before

deduplicateThreats(ths) == DedupLoop(ths, Len(ths)).unique

\* threats/detector.ts: detectAllThreats.  The four calls are made in turn with no
\* try around them: the first one that raises ends the call with its exception.
DetectAll(input) ==
    LET sim      == input.simulation
        wallet   == input.userWallet
        drain    == detectWalletDrain(sim, wallet)
        phishing == detectPhishing(input.transaction.instructions, sim)
        delegate == detectDelegateHijack(sim, wallet)
        unknown  == detectUnknownPrograms(sim)
    IN IF drain.raised
       THEN [raised |-> TRUE, allThreats |-> <<>>, threats |-> <<>>]
       ELSE IF phishing.raised
       THEN [raised |-> TRUE, allThreats |-> drain.threats, threats |-> <<>>]
       ELSE IF delegate.raised
       THEN [raised |-> TRUE, allThreats |-> drain.threats \o phishing.threats,
             threats |-> <<>>]
       ELSE IF unknown.raised
       THEN [raised |-> TRUE, threats |-> <<>>,
             allThreats |-> drain.threats \o phishing.threats \o delegate.threats]
       ELSE LET allThreats == drain.threats \o phishing.threats
                                 \o delegate.threats \o unknown.threats
            IN [raised |-> FALSE, allThreats |-> allThreats,
                threats |-> deduplicateThreats(allThreats)]

(***************************************************************************)
(* The inputs of detectAllThreats: a transaction (its number of            *)
(* instructions), a Partial<SimulationResult> and the user's wallet "W".   *)
(* Each family of inputs varies what one detector reads; MixedInputs puts  *)
(* findings of all four detectors into one simulation.                     *)
(***************************************************************************)
SeqsUpTo(S, n) == UNION { [1..k -> S] : k \in 0..n }

\* The object simulateViaRPC hands to the detectors (lines 442-454): no
\* authorityChanges.
PartialSimulation(logs, solTransfers, tokenTransfers, invoked, suspiciousCalls) ==
    [ simulation |-> [success |-> TRUE, logs |-> logs],
      financial  |-> [solTransfers |-> solTransfers, tokenTransfers |-> tokenTransfers],
      programs   |-> [invoked |-> invoked, suspiciousCalls |-> suspiciousCalls] ]

DetectInput(numInstructions, sim) ==
    [transaction |-> [instructions |-> numInstructions], simulation |-> sim,
     userWallet |-> "W"]

SolTransferInputs ==
    SeqsUpTo({ [from |-> "W", to |-> "A", amount |-> a] :
                  a \in {Lamports(5, 0), Lamports(5, 1)} }, MaxSolTransfers)

TokenTransfers(n, from) ==
    [i \in 1..n |-> [mint |-> "M", from |-> from, to |-> IF i % 2 = 1 THEN "A" ELSE "B"]]

TokenTransferInputs ==
    { TokenTransfers(n, from) : n \in {0, 5, 6}, from \in {"W", "A"} }
        \cup { Append(TokenTransfers(n, "W"), [mint |-> "M", from |-> NULL, to |-> "A"]) :
                  n \in {0, 6} }

ChangeInputs ==
    { [account |-> a, authorityType |-> "Close", oldAuthority |-> "W",
       newAuthority |-> NULL, requiresAttention |-> FALSE] : a \in {"A", "B"} }
        \cup { [account |-> a, authorityType |-> "Delegate", oldAuthority |-> NULL,
                newAuthority |-> n, requiresAttention |-> r] :
                  a \in {"A", "B"}, n \in {NULL, "W", "A", "B"}, r \in BOOLEAN }

LogInputs ==
    { <<>>,
      << <<"Program", "log:", "ok">> >>,
      << <<"Program", "Approve">>, <<"ALL", "tokens">> >>,
      << <<"all", "approve">> >>,
      << <<"Verify", "wallet">>, <<"approve", "all">> >> }

ProgramInputs ==
    { ProgramInvocation(p, "Token Program", TRUE, 100) : p \in {"P1", "P2"} }
        \cup { ProgramInvocation("P1", "Unknown Program", FALSE, r) :
                  r \in {0, 29, 30, 49, 50} }
        \cup { ProgramInvocation("P2", "Unknown Program", FALSE, 0),
               [programId |-> "P1", name |-> "Unknown Program", verified |-> FALSE] }

SuspiciousCallInputs ==
    { <<>>,
      << [programId |-> "P1", reason |-> "low reputation"] >>,
      << [programId |-> "P1", reason |-> "low reputation"],
         [programId |-> "P1", reason |-> "unexpected"] >>,
      << [programId |-> "P2", reason |-> "low reputation"],
         [programId |-> "P1", reason |-> "low reputation"] >>,
      << [programId |-> NULL, reason |-> "low reputation"] >> }

DrainInputs ==
    { DetectInput(1, PartialSimulation(<<>>, sol, tok, <<>>, <<>>)) :
         sol \in SolTransferInputs, tok \in TokenTransferInputs }

PhishingInputs ==
    { DetectInput(n, PartialSimulation(logs, <<>>, <<>>, <<>>, <<>>)) :
         n \in 0..MaxInstructions, logs \in LogInputs }

DelegateInputs ==
    { DetectInput(1, WithField(PartialSimulation(<<>>, <<>>, <<>>, <<>>, <<>>),
                               "authorityChanges", changes)) :
         changes \in SeqsUpTo(ChangeInputs, MaxChanges) }

UnknownProgramInputs ==
    { DetectInput(1, PartialSimulation(<<>>, <<>>, <<>>, invoked, calls)) :
         invoked \in SeqsUpTo(ProgramInputs, MaxPrograms), calls \in SuspiciousCallInputs }

MixedInputs ==
    { DetectInput(MaxInstructions,
                  WithField(PartialSimulation(logs, sol, tok, invoked, calls),
                            "authorityChanges", changes)) :
         logs \in { l \in LogInputs : Len(l) = 2 },
         sol \in { t \in SolTransferInputs : Len(t) = MaxSolTransfers },
         tok \in { t \in TokenTransferInputs : Len(t) >= 6 },
         changes \in { c \in SeqsUpTo(ChangeInputs, 1) : \A i \in 1..Len(c) :
                          c[i].requiresAttention /\ c[i].newAuthority \in {"A", "W"} },
         invoked \in { p \in SeqsUpTo(ProgramInputs, 1) : \A i \in 1..Len(p) :
                          "reputation" \notin DOMAIN p[i] },
         calls \in { c \in SuspiciousCallInputs : Len(c) = 1 } }

DetectInputs ==
    DrainInputs \cup PhishingInputs \cup DelegateInputs \cup UnknownProgramInputs
        \cup MixedInputs

InitDetect == IdleScore /\ IdleRules /\ IdleDetect /\ IdleGuard /\ IdleRegistry
                /\ IdleWebhook

\* detectAllThreats(transaction, simulation, userWallet): no await inside, the call
\* runs to its return or to the exception in one piece.
detectAllThreats ==
    /\ detPc = "idle"
    /\ \E input \in DetectInputs :
          LET result == DetectAll(input) IN
          /\ detInput' = input
          /\ detAll' = result.allThreats
          /\ detOut' = result.threats
          /\ detPc' = IF result.raised THEN "rejected" ELSE "returned"
    /\ UNCHANGED <<scoreVars, ruleVars, guardVars, regVars, whVars>>

\* The caller takes the settled promise.
detectAllThreatsDone ==
    /\ detPc \in {"returned", "rejected"}
    /\ detPc' = "idle"
    /\ detInput' = NULL
    /\ detAll' = <<>>
    /\ detOut' = <<>>
    /\ UNCHANGED <<scoreVars, ruleVars, guardVars, regVars, whVars>>

NextDetect == detectAllThreats \/ detectAllThreatsDone

SpecDetect == InitDetect /\ [][NextDetect]_vars

\* The affected accounts of a threat as a set.
AccountSet(threat) ==
    { threat.affectedAccounts[i] : i \in 1..Len(threat.affectedAccounts) }

\* The identity of the specification: kind and affected-account set.
SameIdentity(t, u) == t.type = u.type /\ AccountSet(t) = AccountSet(u)

\* C6: of the threats the detectors produce with one (kind, affected-account set),
\* the output holds exactly one, and it is the first one produced.
C6_DedupFirstWins ==
    detPc = "returned" =>
        \A i \in 1..Len(detAll) :
            LET first == CHOOSE j \in 1..i :
                            /\ SameIdentity(detAll[j], detAll[i])
                            /\ \A k \in 1..(j - 1) : ~SameIdentity(detAll[k], detAll[i])
                kept == { k \in 1..Len(detOut) : SameIdentity(detOut[k], detAll[i]) }
            IN /\ Cardinality(kept) = 1
               /\ \A k \in kept : detOut[k] = detAll[first]

\* The same accounts, each as often, listed in a different order.
IsReordering(a, b) ==
    /\ a # b
    /\ Len(a) = Len(b)
    /\ \A x \in { a[i] : i \in 1..Len(a) } :
          Cardinality({ i \in 1..Len(a) : a[i] = x })
             = Cardinality({ i \in 1..Len(b) : b[i] = x })

\* C7: two threats of one kind whose affected accounts are the same set in a
\* different order are duplicates: the output never holds both.
C7_OrderInsensitiveIdentity ==
    detPc = "returned" =>
        \A k, l \in 1..Len(detOut) :
            (k # l /\ detOut[k].type = detOut[l].type)
                => ~IsReordering(detOut[k].affectedAccounts, detOut[l].affectedAccounts)

\* The threats of the detectors that do not raise on the input, in detector order.
ThreatsOfOthers(input) ==
    LET drain    == detectWalletDrain(input.simulation, input.userWallet)
        phishing == detectPhishing(input.transaction.instructions, input.simulation)
        delegate == detectDelegateHijack(input.simulation, input.userWallet)
        unknown  == detectUnknownPrograms(input.simulation)
    IN drain.threats \o phishing.threats \o delegate.threats \o unknown.threats

\* C8: when one detector throws, detectAllThreats does not throw; it returns the
\* deduplicated threats of the other detectors.
C8_DetectorIsolation ==
    detPc # "idle" =>
        /\ detPc = "returned"
        /\ detOut = deduplicateThreats(ThreatsOfOthers(detInput))

\* Threats with one kind and one list of affected accounts: the first one produced
\* is the only one returned (the part of C6 that deduplicateThreats does keep).
DedupByAccountList ==
    detPc = "returned" =>
        \A i \in 1..Len(detAll) :
            LET same(t) == t.type = detAll[i].type
                             /\ t.affectedAccounts = detAll[i].affectedAccounts
                first == CHOOSE j \in 1..i :
                            same(detAll[j]) /\ \A k \in 1..(j - 1) : ~same(detAll[k])
                kept == { k \in 1..Len(detOut) : same(detOut[k]) }
            IN /\ Cardinality(kept) = 1
               /\ \A k \in kept : detOut[k] = detAll[first]

(***************************************************************************)
(* guard.ts: DegenShield.simulateTx, with TransactionSimulator              *)
(* (simulation/types.ts) and the analysers it calls.                       *)
(*                                                                         *)
(* A transaction is its list of instructions, an instruction its program   *)
(* id.  "P1" is the SPL Token program, "P2" the Jupiter aggregator and     *)
(* "P3" a program that VERIFIED_PROGRAMS does not list.  An options or     *)
(* config object is a record holding the keys that were given.             *)
(***************************************************************************)
VERIFIED_PROGRAMS ==
    [ P1 |-> [name |-> "SPL Token", verified |-> TRUE, reputation |-> 100],
      P2 |-> [name |-> "Jupiter Aggregator", verified |-> TRUE, reputation |-> 95] ]

\* utils/helpers.ts: program?.verified === true
isVerifiedProgram(programId) ==
    programId \in DOMAIN VERIFIED_PROGRAMS /\ VERIFIED_PROGRAMS[programId].verified

\* utils/helpers.ts: program?.reputation ?? 0
getProgramReputation(programId) ==
    IF programId \in DOMAIN VERIFIED_PROGRAMS
    THEN VERIFIED_PROGRAMS[programId].reputation ELSE 0

\* utils/helpers.ts: program?.name ?? 'Unknown Program'
getProgramName(programId) ==
    IF programId \in DOMAIN VERIFIED_PROGRAMS
    THEN VERIFIED_PROGRAMS[programId].name ELSE "Unknown Program"

\* analyzePrograms, lines 185-190: the Set of program ids, in insertion order.
RECURSIVE ProgramIdsOf(_)
ProgramIdsOf(instructions) ==
    IF instructions = <<>> THEN <<>>
    ELSE LET before    == ProgramIdsOf(SubSeq(instructions, 1, Len(instructions) - 1))
             programId == instructions[Len(instructions)].programId
         IN IF \E i \in 1..Len(before) : before[i] = programId
            THEN before ELSE Append(before, programId)

\* analysis/financial.ts: analyzePrograms
analyzePrograms(transaction) ==
    LET programIds == ProgramIdsOf(transaction.instructions)
        invoked == [ i \in 1..Len(programIds) |->
                       ProgramInvocation(programIds[i], getProgramName(programIds[i]),
                                         isVerifiedProgram(programIds[i]),
                                         getProgramReputation(programIds[i])) ]
        flagged == SelectSeq(invoked, LAMBDA p : ~p.verified /\ p.reputation < 50)
    IN [ invoked |-> invoked,
         suspiciousCalls |-> [ i \in 1..Len(flagged) |->
                                 [programId |-> flagged[i].programId,
                                  reason |-> "Unverified program with low reputation"] ] ]

\* analysis/financial.ts: analyzeFinancial finds no transfer in any transaction.
analyzeFinancial(transaction, logs) == [solTransfers |-> <<>>, tokenTransfers |-> <<>>]

\* options.key ?? fallback, and the defaults of a destructuring.
Coalesce(obj, key, fallback) == IF key \in DOMAIN obj THEN obj[key] ELSE fallback

\* PublicKey.default
PublicKeyDefault == "11111111111111111111111111111111"

\* TransactionSimulator.createFailedSimulationResult
createFailedSimulationResult(error) ==
    [ riskScore   |-> 100,
      riskLevel   |-> "CRITICAL",
      threats     |-> << [ type |-> "UNKNOWN_PROGRAM", severity |-> "CRITICAL",
                           title |-> <<"Simulation Failed">>,
                           description |-> <<"Transaction simulation failed: ", error>>,
                           affectedAccounts |-> <<>>,
                           evidence |-> [data |-> [error |-> error]],
                           blockedByDefault |-> TRUE ] >>,
      simulation  |-> [success |-> FALSE, logs |-> <<>>],
      financial   |-> [solTransfers |-> <<>>, tokenTransfers |-> <<>>],
      programs    |-> [invoked |-> <<>>, suspiciousCalls |-> <<>>],
      authorityChanges |-> <<>> ]

\* TransactionSimulator.simulate / simulateViaRPC once the RPC call has settled with
\* response: [rejected, value], rejected when the detectors raise.
simulateViaRPC(transaction, options, response) ==
    IF response.throws
    THEN [rejected |-> FALSE, value |-> createFailedSimulationResult(response.message)]
    ELSE LET signerPublicKey  == Coalesce(options, "signerPublicKey", NULL)
             includeFullLogs  == Coalesce(options, "includeFullLogs", FALSE)
             detectThreats    == Coalesce(options, "detectAllThreats", TRUE)
             logs             == response.logs
             financial        == analyzeFinancial(transaction, logs)
             programAnalysis  == analyzePrograms(transaction)
             success          == response.err = NULL
             detected ==
                 DetectAll([ transaction |-> [instructions |-> Len(transaction.instructions)],
                             simulation  |->
                                 [ simulation |-> [success |-> success, logs |-> logs],
                                   financial  |-> financial,
                                   programs   |-> programAnalysis ],
                             userWallet  |-> signerPublicKey ])
             run == detectThreats /\ signerPublicKey # NULL
         IN IF run /\ detected.raised
            THEN [rejected |-> TRUE, value |-> NULL]
            ELSE [ rejected |-> FALSE,
                   value |-> SimulationResult(success,
                                              IF includeFullLogs THEN logs ELSE <<>>,
                                              financial.solTransfers,
                                              financial.tokenTransfers,
                                              programAnalysis.invoked,
                                              programAnalysis.suspiciousCalls,
                                              IF run THEN detected.threats ELSE <<>>) ]

\* rules/engine.ts: BUILT_IN_RULES
BUILT_IN_RULES ==
    << [ name |-> "prevent-large-sol-transfers", severity |-> "HIGH", blocking |-> TRUE,
         condition |-> "largeSol", message |-> [fn |-> "exceeds the 10 SOL limit"] ],
       [ name |-> "whitelist-programs-only", severity |-> "CRITICAL", blocking |-> TRUE,
         condition |-> "whitelist",
         message |-> [static |-> "Transaction interacts with non-whitelisted program"] ] >>

\* new RulesEngine(rules): rules.forEach(rule => this.addRule(rule))
RECURSIVE RulesEngine(_)
RulesEngine(rs) ==
    IF rs = <<>> THEN <<>>
    ELSE MapSet(RulesEngine(SubSeq(rs, 1, Len(rs) - 1)), rs[Len(rs)].name, rs[Len(rs)])

\* await engine.evaluateRules(simulation, context) from the call to the settled
\* promise: the loop from iterator position idx with the threats found so far.
RECURSIVE EvaluateFrom(_, _, _, _, _)
EvaluateFrom(entries, sim, ctx, idx, ths) ==
    LET run == RunLoop(entries, sim, idx, <<>>) IN
    IF run.pc # "awaiting"
    THEN [rejected |-> run.pc = "rejected", threats |-> ths]
    ELSE LET settled == Settle(run.rule, sim, ctx, ths) IN
         IF settled.rejected
         THEN [rejected |-> TRUE, threats |-> ths]
         ELSE EvaluateFrom(entries, sim, ctx, run.idx, settled.threats)

\* guard.ts lines 170-172: the score and the level are computed again.
Rescore_Stale(res) == res

Rescore(res) ==
    [res EXCEPT !.riskScore = calculateRiskScore(res.threats),
                !.riskLevel = getRiskLevel(calculateRiskScore(res.threats))]

\* The configurations DegenShield is constructed with.
ConfigRule ==
    [ name |-> "config-rule", severity |-> "LOW", condition |-> "true",
      message |-> [static |-> "always"], metadata |-> "m8" ]

GuardConfigs ==
    { [rpcUrl |-> "rpc", options |-> [enableWebhooks |-> TRUE], webhooks |-> "endpoints"],
      [rpcUrl |-> "rpc", options |-> [enableWebhooks |-> TRUE]],
      [rpcUrl |-> "rpc", options |-> [customRules |-> FALSE], customRules |-> <<ConfigRule>>] }

\* constructor, lines 93-100: the rules of this.rulesEngine
ConfiguredRules(config) ==
    (IF Coalesce(Coalesce(config, "options", [none |-> NULL]), "customRules", TRUE) # FALSE
     THEN BUILT_IN_RULES ELSE <<>>)
        \o Coalesce(config, "customRules", <<>>)

\* constructor, lines 104-106: is a WebhookManager made
ConfiguredWebhooks(config) ==
    /\ Coalesce(Coalesce(config, "options", [none |-> NULL]), "enableWebhooks", FALSE)
    /\ "webhooks" \in DOMAIN config

\* The transactions, options and RPC responses of a simulateTx call.
ProgramIds == {"P1", "P2", "P3"}

TransactionInputs ==
    { [instructions |-> ixs] :
         ixs \in SeqsUpTo({ [programId |-> p] : p \in ProgramIds }, MaxInstructions) }

OptionRules ==
    << WithField(CHOOSE b \in RuleBehaviours : b.metadata = "m5", "name", "a"),
       WithField(CHOOSE b \in RuleBehaviours : b.metadata = "m4", "name", "b"),
       WithField(CHOOSE b \in RuleBehaviours : b.metadata = "m1", "name", "c") >>

OptionInputs ==
    { [includeFullLogs |-> FALSE],
      [signerPublicKey |-> "W"],
      [signerPublicKey |-> "W", detectAllThreats |-> FALSE, includeFullLogs |-> TRUE],
      [signerPublicKey |-> "W", customRules |-> OptionRules],
      [signerPublicKey |-> "W", customRules |-> <<>>],
      [customRules |-> OptionRules] }

RpcResponses ==
    { [throws |-> TRUE, message |-> "fetch failed"] }
        \cup { [throws |-> FALSE, err |-> err, logs |-> logs] :
                  err \in {NULL, "InstructionError"},
                  logs \in { l \in LogInputs : Len(l) # 1 } }

InitGuard ==
    /\ IdleScore
    /\ IdleDetect
    /\ IdleRegistry
    /\ IdleWebhook
    /\ evalPc = "idle"
    /\ evalSim = NULL
    /\ evalCtx = NULL
    /\ evalIdx = 0
    /\ evalRule = NULL
    /\ evalThreats = <<>>
    /\ condCalls = <<>>
    /\ evalOther = NoEval
    /\ guardPc = "idle"
    /\ guardCall = NULL
    /\ rpcResponse = NULL
    /\ simulated = NULL
    /\ guardResult = NULL
    /\ webhookSent = "none"
    /\ \E config \in GuardConfigs :
          /\ rules = RulesEngine(ConfiguredRules(config))
          /\ webhookManager = ConfiguredWebhooks(config)

\* simulateTx(transaction, options) is called: lines 133-140, up to the RPC call that
\* simulate awaits.
simulateTx ==
    /\ guardPc = "idle"
    /\ \E transaction \in TransactionInputs, options \in OptionInputs :
          guardCall' = [transaction |-> transaction, options |-> options]
    /\ guardPc' = "simulate"
    /\ rpcResponse' = NULL
    /\ simulated' = NULL
    /\ guardResult' = NULL
    /\ webhookSent' = "none"
    /\ UNCHANGED <<webhookManager, scoreVars, ruleVars, detVars, regVars, whVars>>

\* The RPC call settles and simulate runs to its return: result is assigned.
simulateSettles ==
    /\ guardPc = "simulate"
    /\ \E response \in RpcResponses :
          LET options == WithField(guardCall.options, "detectAllThreats",
                                   Coalesce(guardCall.options, "detectAllThreats", TRUE))
              sim == simulateViaRPC(guardCall.transaction, options, response)
          IN /\ rpcResponse' = response
             /\ IF sim.rejected
                THEN /\ guardPc' = "rejected"
                     /\ UNCHANGED <<simulated, guardResult>>
                ELSE /\ guardPc' = "customRules"
                     /\ simulated' = sim.value
                     /\ guardResult' = sim.value
    /\ UNCHANGED <<webhookManager, guardCall, webhookSent, scoreVars, ruleVars, detVars, regVars, whVars>>

\* Lines 144-154: the rules of options.customRules, in an engine of their own.
evaluateCustomRules ==
    /\ guardPc = "customRules"
    /\ LET options == guardCall.options
           customRules == Coalesce(options, "customRules", <<>>)
           ruleContext == [userWallet |-> Coalesce(options, "signerPublicKey", PublicKeyDefault)]
           ruleThreats == EvaluateFrom(RulesEngine(customRules), guardResult, ruleContext,
                                       0, <<>>)
       IN IF Len(customRules) > 0
          THEN IF ruleThreats.rejected
               THEN /\ guardPc' = "rejected"
                    /\ UNCHANGED guardResult
               ELSE /\ guardPc' = "engineRules"
                    /\ guardResult' = [guardResult EXCEPT !.threats = @ \o ruleThreats.threats]
          ELSE /\ guardPc' = "engineRules"
               /\ UNCHANGED guardResult
    /\ UNCHANGED <<webhookManager, guardCall, rpcResponse, simulated, webhookSent,
                   scoreVars, ruleVars, detVars, regVars, whVars>>

\* Lines 158-166: the rules of this.rulesEngine, when a signer is given.
evaluateEngineRules ==
    /\ guardPc = "engineRules"
    /\ LET options == guardCall.options
           ruleContext == [userWallet |-> Coalesce(options, "signerPublicKey", NULL)]
           ruleThreats == EvaluateFrom(rules, guardResult, ruleContext, 0, <<>>)
       IN IF "signerPublicKey" \in DOMAIN options
          THEN IF ruleThreats.rejected
               THEN /\ guardPc' = "rejected"
                    /\ UNCHANGED guardResult
               ELSE /\ guardPc' = "score"
                    /\ guardResult' = [guardResult EXCEPT !.threats = @ \o ruleThreats.threats]
          ELSE /\ guardPc' = "score"
               /\ UNCHANGED guardResult
    /\ UNCHANGED <<webhookManager, guardCall, rpcResponse, simulated, webhookSent,
                   scoreVars, ruleVars, detVars, regVars, whVars>>

\* Lines 170-172, after the awaited import of the helpers.
recalculateRisk ==
    /\ guardPc = "score"
    /\ guardResult' = Rescore(guardResult)
    /\ guardPc' = IF webhookManager /\ "signerPublicKey" \in DOMAIN guardCall.options
                  THEN "webhook" ELSE "returned"
    /\ UNCHANGED <<webhookManager, guardCall, rpcResponse, simulated, webhookSent,
                   scoreVars, ruleVars, detVars, regVars, whVars>>

\* Lines 178-188: where simulateTx goes when the awaited sendWebhook resolved
\* ("sent") or rejected ("failed"): the catch only warns, line 191 returns result.
AfterWebhook_Propagate(outcome) == IF outcome = "failed" THEN "rejected" ELSE "returned"

AfterWebhook(outcome) == "returned"

\* Lines 176-189: the awaited sendWebhook resolves or rejects; a rejection is caught.
webhookSettles ==
    /\ guardPc = "webhook"
    /\ \E outcome \in {"sent", "failed"} :
          /\ webhookSent' = outcome
          /\ guardPc' = AfterWebhook(outcome)
    /\ UNCHANGED <<webhookManager, guardCall, rpcResponse, simulated, guardResult,
                   scoreVars, ruleVars, detVars, regVars, whVars>>

\* The caller takes the settled promise of simulateTx.
simulateTxDone ==
    /\ guardPc \in {"returned", "rejected"}
    /\ guardPc' = "idle"
    /\ guardCall' = NULL
    /\ rpcResponse' = NULL
    /\ simulated' = NULL
    /\ guardResult' = NULL
    /\ webhookSent' = "none"
    /\ UNCHANGED <<webhookManager, scoreVars, ruleVars, detVars, regVars, whVars>>

NextGuard ==
    \/ simulateTx
    \/ simulateSettles
    \/ evaluateCustomRules
    \/ evaluateEngineRules
    \/ recalculateRisk
    \/ webhookSettles
    \/ simulateTxDone

SpecGuard == InitGuard /\ [][NextGuard]_vars

\* C4: in the result simulateTx returns, the threats are those of the simulation
\* followed by the rule threats, riskScore is calculateRiskScore of that whole list
\* and riskLevel is getRiskLevel(riskScore).
C4_FinalScoreOverAllThreats ==
    guardPc = "returned" =>
        /\ SubSeq(guardResult.threats, 1, Len(simulated.threats)) = simulated.threats
        /\ guardResult.riskScore = calculateRiskScore(guardResult.threats)
        /\ guardResult.riskLevel = getRiskLevel(guardResult.riskScore)

\* A call has returned whose detectors and rules both found threats, with a score
\* and a level above those of the simulation.
C4_Witness ==
    /\ guardPc = "returned"
    /\ Len(simulated.threats) > 0
    /\ Len(guardResult.threats) > Len(simulated.threats)
    /\ guardResult.riskScore > simulated.riskScore
    /\ guardResult.riskLevel # simulated.riskLevel

\* C5: when the RPC simulation call throws, the result simulateTx returns has
\* riskScore 100 and riskLevel CRITICAL.
C5_FailedSimulationIsCritical ==
    (guardPc = "returned" /\ rpcResponse.throws) =>
        /\ guardResult.riskScore = 100
        /\ guardResult.riskLevel = "CRITICAL"

\* What the simulator hands back for a failed RPC call is scored 100 and CRITICAL
\* (the part of C5 that createFailedSimulationResult does keep).
FailedSimulationScored ==
    (guardPc \notin {"idle", "simulate", "rejected"} /\ rpcResponse.throws) =>
        /\ simulated.riskScore = 100
        /\ simulated.riskLevel = "CRITICAL"
        /\ ~simulated.simulation.success

\* Does this simulateTx call dispatch a webhook (guard.ts:176).
Dispatches == webhookManager /\ "signerPublicKey" \in DOMAIN guardCall.options

\* C26: when the sendWebhook call of simulateTx rejects, simulateTx does not throw:
\* it returns its result, with every threat and the score and level over them.
C26_WebhookFailureDoesNotAbort ==
    webhookSent = "failed" =>
        /\ guardPc = "returned"
        /\ SubSeq(guardResult.threats, 1, Len(simulated.threats)) = simulated.threats
        /\ guardResult.riskScore = calculateRiskScore(guardResult.threats)
        /\ guardResult.riskLevel = getRiskLevel(guardResult.riskScore)

\* The webhook of an assessment with threats failed and the assessment is returned.
C26_Witness ==
    /\ webhookSent = "failed"
    /\ guardPc = "returned"
    /\ Len(guardResult.threats) > 0

\* C27: simulateTx hands its result to the caller without waiting for sendWebhook:
\* it is never suspended on that call, and when it returns, the outcome of the call
\* has not been waited for.
C27_DispatchDetached ==
    /\ guardPc # "webhook"
    /\ (guardPc = "returned" /\ Dispatches) => webhookSent = "none"

\* The analysis context inside a simulation result: all of it but the findings.
ContextOf(result) ==
    [ simulation |-> result.simulation, financial |-> result.financial,
      programs |-> result.programs, authorityChanges |-> result.authorityChanges ]

\* simulateTx holds a result made from an RPC response, on which the detectors ran.
DetectorsRan ==
    /\ guardPc \in {"customRules", "engineRules", "score", "webhook", "returned"}
    /\ ~rpcResponse.throws
    /\ Coalesce(guardCall.options, "detectAllThreats", TRUE)
    /\ "signerPublicKey" \in DOMAIN guardCall.options

\* C33: in one simulateTx run the context the rules are given has the contents the
\* detectors were given (here the log lines, which both read), and it keeps the
\* contents it had when the simulator returned it.
C33_ContextNotMutated ==
    /\ guardPc \in {"customRules", "engineRules", "score", "webhook", "returned"}
          => ContextOf(guardResult) = ContextOf(simulated)
    /\ DetectorsRan => guardResult.simulation.logs = rpcResponse.logs

\* Through the rule evaluations of simulateTx the context in result stays as the
\* simulator returned it (the part of C33 that the code does keep).
ContextKeptByRules ==
    guardPc \in {"customRules", "engineRules", "score", "webhook", "returned"}
        => ContextOf(guardResult) = ContextOf(simulated)

(***************************************************************************)
(* rules/engine.ts: the rule registry, this.rules, under the operations    *)
(* that change or read it: the constructor, addRule, removeRule,           *)
(* updateRule, exportRules and importRules.  Each is synchronous.  regOp   *)
(* keeps the last call: its name, its arguments and what it returned       *)
(* ("true", "false", or "void"), or the array exportRules returned.        *)
(***************************************************************************)
RegistryNames == {"a", "b"}

RegistryRules ==
    { WithField(b, "name", n) :
         n \in RegistryNames, b \in { r \in RuleBehaviours : r.metadata \in {"m1", "m7"} } }

\* The updates handed to updateRule: a Partial<RiskRule>.
RegistryUpdates ==
    { [severity |-> "CRITICAL"] } \cup { [name |-> n] : n \in RegistryNames }

\* The arrays handed to the constructor and to importRules.
RegistryLists == SeqsUpTo(RegistryRules, 2)

\* { ...existing, ...updates }
Spread(existing, updates) ==
    [ f \in DOMAIN existing \cup DOMAIN updates |->
        IF f \in DOMAIN updates THEN updates[f] ELSE existing[f] ]

\* Array.from(this.rules.values())
exportRulesOf(entries) == [i \in 1..Len(entries) |-> entries[i].value]

\* this.rules.clear(); for (const rule of rules) this.addRule(rule)
importRulesOf(entries, rs) == RulesEngine(rs)

\* updateRule(name, updates) on this.rules
updateRuleOf(entries, name, updates) ==
    IF KeyIndex(entries, name) = 0 THEN entries
    ELSE MapSet(entries, name, Spread(entries[KeyIndex(entries, name)].value, updates))

RegistryCall(op, name, rule, updates, list, returned, exported) ==
    [ op |-> op, name |-> name, rule |-> rule, updates |-> updates, list |-> list,
      returned |-> returned, exported |-> exported ]

NoRule == [name |-> ""]

InitRegistry ==
    /\ IdleScore
    /\ IdleDetect
    /\ IdleGuard
    /\ IdleWebhook
    /\ evalPc = "idle"
    /\ evalSim = NULL
    /\ evalCtx = NULL
    /\ evalIdx = 0
    /\ evalRule = NULL
    /\ evalThreats = <<>>
    /\ condCalls = <<>>
    /\ evalOther = NoEval
    /\ \E list \in RegistryLists :
          /\ rules = RulesEngine(list)
          /\ regOp = RegistryCall("constructor", "", NoRule, NoRule, list, "void", <<>>)
    /\ regBefore = <<>>

RegistryFrame ==
    UNCHANGED <<evalPc, evalSim, evalCtx, evalIdx, evalRule, evalThreats, condCalls, evalOther,
                scoreVars, detVars, guardVars, whVars>>

\* addRule(rule)
registryAddRule ==
    /\ \E rule \in RegistryRules :
          /\ rules' = MapSet(rules, rule.name, rule)
          /\ regOp' = RegistryCall("addRule", rule.name, rule, NoRule, <<>>, "void", <<>>)
    /\ regBefore' = rules
    /\ RegistryFrame

\* removeRule(name)
registryRemoveRule ==
    /\ \E name \in RegistryNames :
          /\ rules' = MapDelete(rules, name)
          /\ regOp' = RegistryCall("removeRule", name, NoRule, NoRule, <<>>,
                                   IF KeyIndex(rules, name) > 0 THEN "true" ELSE "false",
                                   <<>>)
    /\ regBefore' = rules
    /\ RegistryFrame

\* updateRule(name, updates)
registryUpdateRule ==
    /\ \E name \in RegistryNames, updates \in RegistryUpdates :
          /\ rules' = updateRuleOf(rules, name, updates)
          /\ regOp' = RegistryCall("updateRule", name, NoRule, updates, <<>>,
                                   IF KeyIndex(rules, name) > 0 THEN "true" ELSE "false",
                                   <<>>)
    /\ regBefore' = rules
    /\ RegistryFrame

\* exportRules()
registryExportRules ==
    /\ rules' = rules
    /\ regOp' = RegistryCall("exportRules", "", NoRule, NoRule, <<>>, "void",
                             exportRulesOf(rules))
    /\ regBefore' = rules
    /\ RegistryFrame

\* importRules(rules)
registryImportRules ==
    /\ \E list \in RegistryLists :
          /\ rules' = importRulesOf(rules, list)
          /\ regOp' = RegistryCall("importRules", "", NoRule, NoRule, list, "void", <<>>)
    /\ regBefore' = rules
    /\ RegistryFrame

\* engine.importRules(engine.exportRules())
registryRoundTrip ==
    /\ rules' = importRulesOf(rules, exportRulesOf(rules))
    /\ regOp' = RegistryCall("importExport", "", NoRule, NoRule, exportRulesOf(rules),
                             "void", exportRulesOf(rules))
    /\ regBefore' = rules
    /\ RegistryFrame

NextRegistry ==
    \/ registryAddRule
    \/ registryRemoveRule
    \/ registryUpdateRule
    \/ registryExportRules
    \/ registryImportRules
    \/ registryRoundTrip

SpecRegistry == InitRegistry /\ [][NextRegistry]_vars

\* The names of the rules an engine holds, as exportRules shows them.
NamesOf(entries) == { entries[i].value.name : i \in 1..Len(entries) }

\* The rules an engine holds under a name, in order.
RulesNamed(entries, name) ==
    SelectSeq(exportRulesOf(entries), LAMBDA r : r.name = name)

\* C12: the engine never holds two rules of one name, and addRule with a name that
\* a held rule already has replaces that rule and leaves the number of rules as it
\* was.
C12_NameIsIdentity ==
    /\ \A i, j \in 1..Len(rules) : rules[i].value.name = rules[j].value.name => i = j
    /\ regOp.op = "addRule" /\ regOp.name \in NamesOf(regBefore) =>
          /\ Len(rules) = Len(regBefore)
          /\ RulesNamed(rules, regOp.name) = <<regOp.rule>>

\* The registry is a map: one entry per key, and addRule on a held key replaces
\* the entry in place (the part of C12 that the Map does keep).
OneRulePerKey ==
    /\ \A i, j \in 1..Len(rules) : rules[i].key = rules[j].key => i = j
    /\ regOp.op = "addRule" /\ KeyIndex(regBefore, regOp.name) > 0 =>
          /\ Len(rules) = Len(regBefore)
          /\ rules[KeyIndex(regBefore, regOp.name)].value = regOp.rule

\* C13: removeRule and updateRule on a name that no held rule has return false and
\* leave the rules as they were; on a name that a held rule has they return true,
\* removeRule has deleted exactly the rules of that name and updateRule has left
\* every rule of another name as it was.
C13_UnknownNameReturnsFalse ==
    regOp.op \in {"removeRule", "updateRule"} =>
        IF regOp.name \notin NamesOf(regBefore)
        THEN regOp.returned = "false" /\ rules = regBefore
        ELSE /\ regOp.returned = "true"
             /\ regOp.op = "removeRule" =>
                   exportRulesOf(rules)
                      = SelectSeq(exportRulesOf(regBefore), LAMBDA r : r.name # regOp.name)
             /\ regOp.op = "updateRule" =>
                   /\ Len(rules) = Len(regBefore)
                   /\ \A i \in 1..Len(regBefore) :
                         regBefore[i].value.name # regOp.name => rules[i] = regBefore[i]

\* The same in terms of the keys of the map: a key that is absent gives false and no
\* change, a key that is present gives true and a change of that entry alone (the
\* part of C13 that the Map does keep).
UnknownKeyReturnsFalse ==
    regOp.op \in {"removeRule", "updateRule"} =>
        IF KeyIndex(regBefore, regOp.name) = 0
        THEN regOp.returned = "false" /\ rules = regBefore
        ELSE /\ regOp.returned = "true"
             /\ regOp.op = "removeRule" =>
                   rules = SelectSeq(regBefore, LAMBDA e : e.key # regOp.name)
             /\ regOp.op = "updateRule" =>
                   /\ Len(rules) = Len(regBefore)
                   /\ \A i \in 1..Len(regBefore) :
                         regBefore[i].key # regOp.name => rules[i] = regBefore[i]

\* The result of evaluateRules on an engine for each simulation and context.
EvaluationsOf(entries) ==
    [ sim \in RuleSimulations |->
        [ ctx \in RuleContexts |-> EvaluateFrom(entries, sim, ctx, 0, <<>>).threats ] ]

\* C14: importRules(exportRules()) leaves the set of names, the rule under each
\* name and the result of evaluateRules for every simulation and context as they
\* were.
C14_ImportExportRoundTrip ==
    regOp.op = "importExport" =>
        /\ NamesOf(rules) = NamesOf(regBefore)
        /\ \A n \in NamesOf(regBefore) : RulesNamed(rules, n) = RulesNamed(regBefore, n)
        /\ EvaluationsOf(rules) = EvaluationsOf(regBefore)

\* While every rule is stored under its own name the round trip changes nothing
\* (the part of C14 that holds).
KeyedByName(entries) == \A i \in 1..Len(entries) : entries[i].key = entries[i].value.name

RoundTripWhenKeyedByName ==
    (regOp.op = "importExport" /\ KeyedByName(regBefore)) => rules = regBefore

(***************************************************************************)
(* rules/engine.ts: importRules called while an evaluateRules call is       *)
(* suspended at the await of a condition.  The for-of loop of              *)
(* evaluateRules holds a live iterator of this.rules: clear() empties the  *)
(* entries the iterator has still to visit and the entries added after it  *)
(* are appended behind them, so the resumed loop visits every imported     *)
(* rule from the first one on.                                             *)
(***************************************************************************)
importRulesDuringEvaluate ==
    /\ evalPc = "awaiting"
    /\ regOp.op = "constructor"
    /\ \E list \in RegistryLists :
          /\ rules' = importRulesOf(rules, list)
          /\ regOp' = RegistryCall("importRules", "", NoRule, NoRule, list, "void", <<>>)
    /\ regBefore' = rules
    /\ evalIdx' = 0
    /\ UNCHANGED <<evalPc, evalSim, evalCtx, evalRule, evalThreats, condCalls, evalOther,
                   scoreVars, detVars, guardVars, whVars>>

NextOverlap ==
    \/ evaluateRules
    \/ conditionSettles
    \/ evaluateRulesDone
    \/ importRulesDuringEvaluate

SpecOverlap == InitRegistry /\ [][NextOverlap]_vars

\* C15: an evaluateRules call that was suspended when importRules ran returns the
\* threats of the old rules alone or the threats of the imported rules alone.
C15_ImportAtomicForEvaluate ==
    (evalPc = "returned" /\ regOp.op = "importRules") =>
        \/ evalThreats = EvaluateFrom(regBefore, evalSim, evalCtx, 0, <<>>).threats
        \/ evalThreats = EvaluateFrom(rules, evalSim, evalCtx, 0, <<>>).threats

\* The call returns the threats of the old rules it had reached when importRules
\* ran, followed by the threats of all imported rules.
MixtureAfterImport ==
    (evalPc = "returned" /\ regOp.op = "importRules") =>
        \E k \in 0..Len(regBefore) :
            evalThreats = EvaluateFrom(SubSeq(regBefore, 1, k), evalSim, evalCtx, 0, <<>>).threats
                            \o EvaluateFrom(rules, evalSim, evalCtx, 0, <<>>).threats

(***************************************************************************)
(* webhooks/manager.ts: WebhookManager.                                    *)
(*                                                                         *)
(* A WebhookConfig is a record holding the keys that were given; an        *)
(* endpoint is its URL.  rateLimitCount maps a key <<endpoint, "minute" or *)
(* "hour", bucket>> to its count, an absent key counting 0.  sendWebhook   *)
(* runs without an await from its call to the first fetch of sendRequest;  *)
(* each fetch and each backoff wait is a step of its own.  The answer to a *)
(* fetch is "ok" (a 2xx response), "notOk" (another response) or "error"   *)
(* (the fetch rejects: a transport error or the abort of the timeout).     *)
(***************************************************************************)
MaxCalls == 4   \* most sendWebhook calls made on one WebhookManager

MinuteMs == 60000

HourMs == 3600000

\* The values Date.now() takes.
TimePoints == {0, MinuteMs - 1, MinuteMs, HourMs}

WebhookConfigs ==
    { [ endpoints |-> [onLowRisk |-> "low", onMediumRisk |-> "medium", onHighRisk |-> "high",
                       onCritical |-> "critical", onBlocked |-> "blocked",
                       onSuccess |-> "success"] ],
      [ endpoints |-> [onSuccess |-> "success"],
        filters   |-> [minRiskScore |-> 0, threatTypes |-> <<>>] ],
      [ endpoints |-> [onBlocked |-> "blocked", onSuccess |-> "success"],
        retry     |-> [maxAttempts |-> 3, backoffMs |-> 100, timeout |-> 5000] ],
      [ endpoints |-> [onHighRisk |-> "high", onCritical |-> "critical"],
        filters   |-> [onlyBlocked |-> TRUE] ],
      [ endpoints |-> [onLowRisk |-> "low", onMediumRisk |-> "medium", onHighRisk |-> "high",
                       onCritical |-> "critical"],
        filters   |-> [minRiskScore |-> 50, threatTypes |-> <<"WALLET_DRAIN", "UNKNOWN_PROGRAM">>] ],
      [ endpoints |-> [onLowRisk |-> "low", onBlocked |-> "blocked"],
        rateLimit |-> [maxPerMinute |-> 2, maxPerHour |-> 3],
        retry     |-> [maxAttempts |-> 2, backoffMs |-> 100, timeout |-> 5000] ],
      [ endpoints |-> [onLowRisk |-> "low", onMediumRisk |-> "medium"],
        filters   |-> [onlyBlocked |-> TRUE, minRiskScore |-> 20],
        rateLimit |-> [maxPerMinute |-> 1, maxPerHour |-> 2] ] }

\* The assessments handed to sendWebhook: one of each risk level.
WebhookThreats ==
    { <<>>,
      << [type |-> "WALLET_DRAIN", severity |-> "HIGH"] >>,
      << [type |-> "DELEGATE_HIJACK", severity |-> "CRITICAL"],
         [type |-> "PHISHING_SIGNATURE", severity |-> "HIGH"] >>,
      << [type |-> "UNKNOWN_PROGRAM", severity |-> "CRITICAL"],
         [type |-> "WALLET_DRAIN", severity |-> "CRITICAL"],
         [type |-> "ACCOUNT_CLOSURE", severity |-> "CRITICAL"] >> }

WebhookSimulations ==
    { SimulationResult(TRUE, <<>>, <<>>, <<>>, <<>>, <<>>, ths) : ths \in WebhookThreats }

\* getEndpoint(simulation, blocked): the URL, or NULL for undefined
getEndpoint_LevelFirst(config, simulation, blocked) ==
    CASE simulation.riskLevel = "CRITICAL" -> Coalesce(config.endpoints, "onCritical", NULL)
      [] simulation.riskLevel = "HIGH"     -> Coalesce(config.endpoints, "onHighRisk", NULL)
      [] simulation.riskLevel = "MEDIUM"   -> Coalesce(config.endpoints, "onMediumRisk", NULL)
      [] simulation.riskLevel = "LOW"      -> Coalesce(config.endpoints, "onLowRisk", NULL)
      [] OTHER                             -> Coalesce(config.endpoints, "onSuccess", NULL)

getEndpoint(config, simulation, blocked) ==
    IF blocked /\ "onBlocked" \in DOMAIN config.endpoints
    THEN config.endpoints.onBlocked
    ELSE CASE simulation.riskLevel = "CRITICAL" -> Coalesce(config.endpoints, "onCritical", NULL)
           [] simulation.riskLevel = "HIGH"     -> Coalesce(config.endpoints, "onHighRisk", NULL)
           [] simulation.riskLevel = "MEDIUM"   -> Coalesce(config.endpoints, "onMediumRisk", NULL)
           [] simulation.riskLevel = "LOW"      -> Coalesce(config.endpoints, "onLowRisk", NULL)
           [] OTHER                             -> Coalesce(config.endpoints, "onSuccess", NULL)

checkRateLimit_CountsRejected(config, counts, endpoint, t) ==
    IF "rateLimit" \notin DOMAIN config THEN [ok |-> TRUE, counts |-> counts]
    ELSE LET minuteKey == <<endpoint, "minute", t \div MinuteMs>>
             hourKey   == <<endpoint, "hour", t \div HourMs>>
             minuteCount == Coalesce(counts, minuteKey, 0)
             hourCount   == Coalesce(counts, hourKey, 0)
             counted == WithField(WithField(counts, minuteKey, minuteCount + 1),
                                  hourKey, hourCount + 1)
         IN IF minuteCount >= config.rateLimit.maxPerMinute
            THEN [ok |-> FALSE, counts |-> counted]
            ELSE IF hourCount >= config.rateLimit.maxPerHour
            THEN [ok |-> FALSE, counts |-> counted]
            ELSE [ok |-> TRUE, counts |-> counted]

checkRateLimit_NoRollover(config, counts, endpoint, t) ==
    IF "rateLimit" \notin DOMAIN config THEN [ok |-> TRUE, counts |-> counts]
    ELSE LET minuteKey == <<endpoint, "minute", 0>>
             hourKey   == <<endpoint, "hour", t \div HourMs>>
             minuteCount == Coalesce(counts, minuteKey, 0)
             hourCount   == Coalesce(counts, hourKey, 0)
         IN IF minuteCount >= config.rateLimit.maxPerMinute
            THEN [ok |-> FALSE, counts |-> counts]
            ELSE IF hourCount >= config.rateLimit.maxPerHour
            THEN [ok |-> FALSE, counts |-> counts]
            ELSE [ok |-> TRUE,
                  counts |-> WithField(WithField(counts, minuteKey, minuteCount + 1),
                                       hourKey, hourCount + 1)]

\* checkRateLimit(endpoint) at Date.now() = t: what it returns and the counters after
checkRateLimit_OffByOne(config, counts, endpoint, t) ==
    IF "rateLimit" \notin DOMAIN config THEN [ok |-> TRUE, counts |-> counts]
    ELSE LET minuteKey == <<endpoint, "minute", t \div MinuteMs>>
             hourKey   == <<endpoint, "hour", t \div HourMs>>
             minuteCount == Coalesce(counts, minuteKey, 0)
             hourCount   == Coalesce(counts, hourKey, 0)
         IN IF minuteCount > config.rateLimit.maxPerMinute
            THEN [ok |-> FALSE, counts |-> counts]
            ELSE IF hourCount > config.rateLimit.maxPerHour
            THEN [ok |-> FALSE, counts |-> counts]
            ELSE [ok |-> TRUE,
                  counts |-> WithField(WithField(counts, minuteKey, minuteCount + 1),
                                       hourKey, hourCount + 1)]

checkRateLimit(config, counts, endpoint, t) ==
    IF "rateLimit" \notin DOMAIN config THEN [ok |-> TRUE, counts |-> counts]
    ELSE LET minuteKey == <<endpoint, "minute", t \div MinuteMs>>
             hourKey   == <<endpoint, "hour", t \div HourMs>>
             minuteCount == Coalesce(counts, minuteKey, 0)
             hourCount   == Coalesce(counts, hourKey, 0)
         IN IF minuteCount >= config.rateLimit.maxPerMinute
            THEN [ok |-> FALSE, counts |-> counts]
            ELSE IF hourCount >= config.rateLimit.maxPerHour
            THEN [ok |-> FALSE, counts |-> counts]
            ELSE [ok |-> TRUE,
                  counts |-> WithField(WithField(counts, minuteKey, minuteCount + 1),
                                       hourKey, hourCount + 1)]

\* passesFilters(simulation, blocked)
passesFilters_ScoreOnly(config, simulation, blocked) ==
    IF "filters" \notin DOMAIN config THEN TRUE
    ELSE ~(/\ Coalesce(config.filters, "minRiskScore", 0) # 0
           /\ simulation.riskScore < Coalesce(config.filters, "minRiskScore", 0))

passesFilters(config, simulation, blocked) ==
    IF "filters" \notin DOMAIN config THEN TRUE
    ELSE LET filters == config.filters
             threatTypes == Coalesce(filters, "threatTypes", <<>>)
         IN IF Coalesce(filters, "onlyBlocked", FALSE) /\ ~blocked
            THEN FALSE
            ELSE IF /\ Coalesce(filters, "minRiskScore", 0) # 0
                    /\ simulation.riskScore < Coalesce(filters, "minRiskScore", 0)
            THEN FALSE
            ELSE IF /\ Len(threatTypes) > 0
                    /\ ~\E i \in 1..Len(simulation.threats), j \in 1..Len(threatTypes) :
                           simulation.threats[i].type = threatTypes[j]
            THEN FALSE
            ELSE TRUE

\* sendWebhook, lines 73-105, from the call to the call of sendRequest: the endpoint
\* chosen, whether checkRateLimit was called and let the call pass, whether
\* sendRequest is called, and the counters afterwards.
sendWebhookSync_LimitFirst(config, counts, simulation, blocked, t) ==
    LET endpoint == getEndpoint(config, simulation, blocked)
        limit    == checkRateLimit(config, counts, endpoint, t)
    IN IF endpoint = NULL
       THEN [endpoint |-> endpoint, accepted |-> FALSE, send |-> FALSE,
             counts |-> limit.counts]
       ELSE [endpoint |-> endpoint, accepted |-> limit.ok,
             send |-> limit.ok /\ passesFilters(config, simulation, blocked),
             counts |-> limit.counts]

sendWebhookSync(config, counts, simulation, blocked, t) ==
    LET endpoint == getEndpoint(config, simulation, blocked)
        limit    == checkRateLimit(config, counts, endpoint, t)
    IN IF endpoint = NULL
       THEN [endpoint |-> endpoint, accepted |-> FALSE, send |-> FALSE, counts |-> counts]
       ELSE IF ~limit.ok
       THEN [endpoint |-> endpoint, accepted |-> FALSE, send |-> FALSE,
             counts |-> limit.counts]
       ELSE IF ~passesFilters(config, simulation, blocked)
       THEN [endpoint |-> endpoint, accepted |-> TRUE, send |-> FALSE,
             counts |-> limit.counts]
       ELSE [endpoint |-> endpoint, accepted |-> TRUE, send |-> TRUE,
             counts |-> limit.counts]

\* sendRequest, lines 342-343: the retry settings with their defaults
maxAttemptsOf(config) ==
    IF Coalesce(Coalesce(config, "retry", <<>>), "maxAttempts", 0) = 0
    THEN 1 ELSE config.retry.maxAttempts

backoffMsOf(config) ==
    IF Coalesce(Coalesce(config, "retry", <<>>), "backoffMs", 0) = 0
    THEN 1000 ELSE config.retry.backoffMs

AfterFetch_NoTimeout(config, attempt, answer) ==
    IF answer = "ok"
    THEN [pc |-> "returned", wait |-> 0, thrown |-> -1]
    ELSE IF answer = "notOk"
    THEN IF attempt < maxAttemptsOf(config) - 1
         THEN [pc |-> "backoff", wait |-> backoffMsOf(config) * (attempt + 1), thrown |-> -1]
         ELSE [pc |-> "returned", wait |-> 0, thrown |-> -1]
    ELSE [pc |-> "pending", wait |-> 0, thrown |-> -1]

AfterFetch_RetryAfterOk(config, attempt, answer) ==
    IF attempt < maxAttemptsOf(config) - 1
    THEN [pc |-> "backoff", wait |-> backoffMsOf(config) * (attempt + 1), thrown |-> -1]
    ELSE IF answer = "error"
    THEN [pc |-> "rejected", wait |-> 0, thrown |-> attempt]
    ELSE [pc |-> "returned", wait |-> 0, thrown |-> -1]

\* sendRequest, lines 361-379: what follows the answer to the fetch of the attempt:
\* pc "returned" (the call returns), "rejected" (it throws the error of the attempt
\* in thrown) or "backoff" (it waits wait ms); thrown is -1 when nothing is thrown
\* and wait is 0 when there is no wait.
AfterFetch_ThrowFirst(config, attempt, answer) ==
    IF answer = "ok"
    THEN [pc |-> "returned", wait |-> 0, thrown |-> -1]
    ELSE IF answer = "error"
    THEN [pc |-> "rejected", wait |-> 0, thrown |-> attempt]
    ELSE IF attempt < maxAttemptsOf(config) - 1
    THEN [pc |-> "backoff", wait |-> backoffMsOf(config) * (attempt + 1), thrown |-> -1]
    ELSE [pc |-> "returned", wait |-> 0, thrown |-> -1]

AfterFetch_ConstantWait(config, attempt, answer) ==
    IF answer = "ok"
    THEN [pc |-> "returned", wait |-> 0, thrown |-> -1]
    ELSE IF attempt < maxAttemptsOf(config) - 1
    THEN [pc |-> "backoff", wait |-> backoffMsOf(config), thrown |-> -1]
    ELSE IF answer = "error"
    THEN [pc |-> "rejected", wait |-> 0, thrown |-> attempt]
    ELSE [pc |-> "returned", wait |-> 0, thrown |-> -1]

AfterFetch(config, attempt, answer) ==
    IF answer = "ok"
    THEN [pc |-> "returned", wait |-> 0, thrown |-> -1]
    ELSE IF answer = "notOk"
    THEN IF attempt < maxAttemptsOf(config) - 1
         THEN [pc |-> "backoff", wait |-> backoffMsOf(config) * (attempt + 1), thrown |-> -1]
         ELSE [pc |-> "returned", wait |-> 0, thrown |-> -1]
    ELSE IF attempt = maxAttemptsOf(config) - 1
         THEN [pc |-> "rejected", wait |-> 0, thrown |-> attempt]
         ELSE [pc |-> "backoff", wait |-> backoffMsOf(config) * (attempt + 1), thrown |-> -1]

InitWebhook ==
    /\ IdleScore
    /\ IdleRules
    /\ IdleDetect
    /\ IdleGuard
    /\ IdleRegistry
    /\ whConfig \in WebhookConfigs
    /\ rateLimitCount = <<>>
    /\ now = 0
    /\ whPc = "idle"
    /\ whCall = NoCall
    /\ whAttempt = 0
    /\ whPosts = <<>>
    /\ whWaits = <<>>
    /\ whAccepted = <<>>
    /\ whCalls = 0
    /\ whInFlight = <<>>

WebhookFrame == UNCHANGED <<scoreVars, ruleVars, detVars, guardVars, regVars>>

\* sendWebhook(simulation, transaction, userWallet, apiKey, blocked) is called at
\* Date.now() = t and runs to its return or to the first fetch.
sendWebhook ==
    /\ whPc = "idle"
    /\ whCalls < MaxCalls
    /\ \E simulation \in WebhookSimulations, blocked \in BOOLEAN,
          t \in { u \in TimePoints : u >= now } :
          LET first == sendWebhookSync(whConfig, rateLimitCount, simulation, blocked, t)
              bucket == <<first.endpoint, t \div MinuteMs>>
          IN /\ now' = t
             /\ rateLimitCount' = first.counts
             /\ whCall' = [simulation |-> simulation, blocked |-> blocked,
                           endpoint |-> first.endpoint, accepted |-> first.accepted,
                           send |-> first.send, before |-> rateLimitCount,
                           answers |-> <<>>, thrown |-> -1]
             /\ whAccepted' = IF first.accepted
                              THEN WithField(whAccepted, bucket,
                                             Coalesce(whAccepted, bucket, 0) + 1)
                              ELSE whAccepted
             /\ whPosts' = IF first.send THEN <<first.endpoint>> ELSE <<>>
             /\ whPc' = IF first.send THEN "fetching" ELSE "returned"
    /\ whCalls' = whCalls + 1
    /\ whAttempt' = 0
    /\ whWaits' = <<>>
    /\ UNCHANGED <<whConfig, whInFlight>>
    /\ WebhookFrame

\* sendRequest, lines 347-380: the awaited fetch of this attempt settles.
fetchSettles ==
    /\ whPc = "fetching"
    /\ \E answer \in {"ok", "notOk", "error"} :
          LET after == AfterFetch(whConfig, whAttempt, answer)
          IN /\ whPc' = after.pc
             /\ whWaits' = IF after.pc = "backoff" THEN Append(whWaits, after.wait)
                                                   ELSE whWaits
             /\ whCall' = [whCall EXCEPT !.answers = Append(@, answer),
                                         !.thrown = after.thrown]
    /\ UNCHANGED <<whConfig, rateLimitCount, now, whAttempt, whPosts, whAccepted, whCalls,
                   whInFlight>>
    /\ WebhookFrame

\* The awaited backoff timer fires: attempt++ and the next fetch.
backoffElapses ==
    /\ whPc = "backoff"
    /\ whAttempt' = whAttempt + 1
    /\ whPosts' = Append(whPosts, whCall.endpoint)
    /\ whPc' = "fetching"
    /\ UNCHANGED <<whConfig, rateLimitCount, now, whCall, whWaits, whAccepted, whCalls,
                   whInFlight>>
    /\ WebhookFrame

\* The caller takes the settled promise of sendWebhook.
sendWebhookDone ==
    /\ whPc \in {"returned", "rejected"}
    /\ whPc' = "idle"
    /\ whCall' = NoCall
    /\ whAttempt' = 0
    /\ whPosts' = <<>>
    /\ whWaits' = <<>>
    /\ UNCHANGED <<whConfig, rateLimitCount, now, whAccepted, whCalls, whInFlight>>
    /\ WebhookFrame

NextWebhook ==
    \/ sendWebhook
    \/ fetchSettles
    \/ backoffElapses
    \/ sendWebhookDone

SpecWebhook == InitWebhook /\ [][NextWebhook]_vars

(***************************************************************************)
(* Claims about the webhook manager.  "notify" is sendWebhook; the BLOCKED *)
(* endpoint is endpoints.onBlocked, the SUCCESS endpoint                   *)
(* endpoints.onSuccess and the endpoint of a risk level the one below.     *)
(***************************************************************************)
TierKeys == {"onLowRisk", "onMediumRisk", "onHighRisk", "onCritical"}

TierKey(level) ==
    CASE level = "LOW"      -> "onLowRisk"
      [] level = "MEDIUM"   -> "onMediumRisk"
      [] level = "HIGH"     -> "onHighRisk"
      [] level = "CRITICAL" -> "onCritical"

InCall == whPc # "idle"

BlockedSelected == InCall /\ whCall.blocked /\ "onBlocked" \in DOMAIN whConfig.endpoints

\* C16: a blocked call with a BLOCKED endpoint configured selects the BLOCKED
\* endpoint whatever the risk level; any other call whose risk level has an endpoint
\* configured selects that one; every request of the call goes to the selected
\* endpoint.
C16_ChannelSelection ==
    InCall =>
        /\ BlockedSelected => whCall.endpoint = whConfig.endpoints.onBlocked
        /\ (~BlockedSelected /\ TierKey(whCall.simulation.riskLevel) \in DOMAIN whConfig.endpoints)
              => whCall.endpoint = whConfig.endpoints[TierKey(whCall.simulation.riskLevel)]
        /\ \A i \in 1..Len(whPosts) : whPosts[i] = whCall.endpoint

\* A blocked LOW assessment is posted to the BLOCKED endpoint although the LOW
\* endpoint is configured too.
C16_Witness ==
    /\ BlockedSelected
    /\ whCall.simulation.riskLevel = "LOW"
    /\ "onLowRisk" \in DOMAIN whConfig.endpoints
    /\ whPosts = <<whConfig.endpoints.onBlocked>>

\* C17: when the BLOCKED endpoint is not selected, no risk-tier endpoint is
\* configured and a SUCCESS endpoint is, the call selects the SUCCESS endpoint.
C17_SuccessFallback ==
    (/\ InCall
     /\ ~BlockedSelected
     /\ DOMAIN whConfig.endpoints \cap TierKeys = {}
     /\ "onSuccess" \in DOMAIN whConfig.endpoints)
        => whCall.endpoint = whConfig.endpoints.onSuccess

\* C18: a call for which no endpoint is selected makes no request, returns
\* without error and leaves rateLimitCount as it was at the call.
C18_NoEndpointIsNoOp ==
    (InCall /\ whCall.endpoint = NULL)
        => /\ whPosts = <<>>
           /\ whPc = "returned"
           /\ rateLimitCount = whCall.before

\* No endpoint is selected on a manager whose counters are in use.
C18_Witness ==
    /\ InCall
    /\ whCall.endpoint = NULL
    /\ "rateLimit" \in DOMAIN whConfig
    /\ rateLimitCount # <<>>
    /\ whPc = "returned"

\* The three filters as the specification words them.
FilterFails ==
    /\ "filters" \in DOMAIN whConfig
    /\ \/ /\ "onlyBlocked" \in DOMAIN whConfig.filters
          /\ whConfig.filters.onlyBlocked
          /\ ~whCall.blocked
       \/ /\ "minRiskScore" \in DOMAIN whConfig.filters
          /\ whCall.simulation.riskScore < whConfig.filters.minRiskScore
       \/ /\ "threatTypes" \in DOMAIN whConfig.filters
          /\ whConfig.filters.threatTypes # <<>>
          /\ \A i \in 1..Len(whCall.simulation.threats) :
                \A j \in 1..Len(whConfig.filters.threatTypes) :
                   whCall.simulation.threats[i].type # whConfig.filters.threatTypes[j]

\* C19: a call for which a configured filter fails makes no request and returns
\* without error; a call for which none fails, and which has an endpoint and the
\* rate limiter's acceptance, makes its request.
C19_Filtering ==
    InCall =>
        /\ FilterFails => (whPosts = <<>> /\ whPc = "returned")
        /\ (~FilterFails /\ whCall.endpoint # NULL /\ whCall.accepted)
              => (whCall.send /\ whPosts # <<>>)

\* A call with an endpoint, accepted by the rate limiter and with a score at the
\* configured minimum, is dropped because no threat has a listed type.
C19_Witness ==
    /\ InCall
    /\ whCall.endpoint # NULL
    /\ whCall.accepted
    /\ "filters" \in DOMAIN whConfig
    /\ "minRiskScore" \in DOMAIN whConfig.filters
    /\ whCall.simulation.riskScore >= whConfig.filters.minRiskScore
    /\ whConfig.filters.minRiskScore > 0
    /\ FilterFails
    /\ whPosts = <<>>
    /\ whPc = "returned"

RECURSIVE SumOver(_, _)
SumOver(f, keys) ==
    IF keys = {} THEN 0
    ELSE LET k == CHOOSE x \in keys : TRUE
         IN f[k] + SumOver(f, keys \ {k})

\* Calls the rate limiter accepted for the endpoint in a minute / an hour bucket.
AcceptedInMinute(endpoint, minute) == Coalesce(whAccepted, <<endpoint, minute>>, 0)

AcceptedInHour(endpoint, hour) ==
    SumOver(whAccepted, { k \in DOMAIN whAccepted :
                            k[1] = endpoint /\ (k[2] * MinuteMs) \div HourMs = hour })

\* The same counts as they were when the call in progress arrived.
ArrivedAtMinute ==
    AcceptedInMinute(whCall.endpoint, now \div MinuteMs) - (IF whCall.accepted THEN 1 ELSE 0)

ArrivedAtHour ==
    AcceptedInHour(whCall.endpoint, now \div HourMs) - (IF whCall.accepted THEN 1 ELSE 0)

\* C20: for each endpoint the calls accepted in one minute bucket never exceed
\* maxPerMinute and those in one hour bucket never exceed maxPerHour; a call
\* arriving with either count at its cap is dropped: no request, no retry, and a
\* call the limiter rejects never makes a request.
C20_RateLimitCap ==
    "rateLimit" \in DOMAIN whConfig =>
        /\ \A k \in DOMAIN whAccepted :
              /\ AcceptedInMinute(k[1], k[2]) <= whConfig.rateLimit.maxPerMinute
              /\ AcceptedInHour(k[1], (k[2] * MinuteMs) \div HourMs)
                    <= whConfig.rateLimit.maxPerHour
        /\ (/\ InCall
            /\ whCall.endpoint # NULL
            /\ \/ ArrivedAtMinute >= whConfig.rateLimit.maxPerMinute
               \/ ArrivedAtHour >= whConfig.rateLimit.maxPerHour)
              => /\ ~whCall.accepted
                 /\ whPosts = <<>>
                 /\ whWaits = <<>>
                 /\ whAttempt = 0
                 /\ whPc = "returned"
                 /\ rateLimitCount = whCall.before
        /\ (InCall /\ whCall.endpoint # NULL /\ ~whCall.accepted) => whPosts = <<>>

\* A call is dropped by the hour cap while its minute bucket still has room.
C20_Witness ==
    /\ InCall
    /\ "rateLimit" \in DOMAIN whConfig
    /\ whCall.endpoint # NULL
    /\ ~whCall.accepted
    /\ ArrivedAtMinute < whConfig.rateLimit.maxPerMinute
    /\ ArrivedAtHour = whConfig.rateLimit.maxPerHour
    /\ whPosts = <<>>
    /\ whPc = "returned"

\* C21: with the N = maxPerMinute calls of one minute bucket accepted, a further call
\* to the endpoint in that bucket is dropped without a request; the first call to the
\* endpoint in a minute bucket is accepted while the hour cap is not reached, and is
\* posted unless a filter drops it.
C21_FixedWindowRollover ==
    (InCall /\ "rateLimit" \in DOMAIN whConfig /\ whCall.endpoint # NULL) =>
        /\ ArrivedAtMinute = whConfig.rateLimit.maxPerMinute
              => (~whCall.accepted /\ whPosts = <<>>)
        /\ (ArrivedAtMinute = 0 /\ ArrivedAtHour < whConfig.rateLimit.maxPerHour)
              => /\ whCall.accepted
                 /\ ~FilterFails => whPosts # <<>>

\* The bucket of minute 0 is full and the first call of minute 1 is posted.
C21_Witness ==
    /\ InCall
    /\ "rateLimit" \in DOMAIN whConfig
    /\ whCall.endpoint # NULL
    /\ now \div MinuteMs = 1
    /\ AcceptedInMinute(whCall.endpoint, 0) = whConfig.rateLimit.maxPerMinute
    /\ AcceptedInMinute(whCall.endpoint, 1) = 1
    /\ whCall.accepted
    /\ whPosts # <<>>

(***************************************************************************)
(* Concurrently running sendWebhook calls on one WebhookManager.  A call   *)
(* runs without an await from its entry to the first fetch of sendRequest  *)
(* (manager.ts:73-105 and 312-352), so that segment is one step; a call    *)
(* suspended at a fetch or a backoff timer stays in whInFlight, with the   *)
(* counters as it left them, while other calls start, resume and finish.   *)
(***************************************************************************)
MaxInFlight == 2   \* most sendWebhook calls suspended at the same time

\* rateLimitCount after a suspended call resumed: sendRequest does not write it
CountersAtResume_WriteBack(counts, call) == call.counts

CountersAtResume(counts, call) == counts

RemoveAt(seq, i) == SubSeq(seq, 1, i - 1) \o SubSeq(seq, i + 1, Len(seq))

\* A sendWebhook call starts while others are suspended, and runs to its return
\* or to its first fetch; the calls fall in the first two minute buckets.
concurrentSendWebhook ==
    /\ whCalls < MaxCalls
    /\ Len(whInFlight) < MaxInFlight
    /\ \E simulation \in WebhookSimulations, blocked \in BOOLEAN,
          t \in { u \in TimePoints : u >= now /\ u <= MinuteMs } :
          LET first == sendWebhookSync(whConfig, rateLimitCount, simulation, blocked, t)
              bucket == <<first.endpoint, t \div MinuteMs>>
          IN /\ now' = t
             /\ rateLimitCount' = first.counts
             /\ whAccepted' = IF first.accepted
                              THEN WithField(whAccepted, bucket,
                                             Coalesce(whAccepted, bucket, 0) + 1)
                              ELSE whAccepted
             /\ whInFlight' = IF first.send
                              THEN Append(whInFlight,
                                          [endpoint |-> first.endpoint, attempt |-> 0,
                                           pc |-> "fetching", counts |-> first.counts])
                              ELSE whInFlight
    /\ whCalls' = whCalls + 1
    /\ UNCHANGED <<whConfig, whPc, whCall, whAttempt, whPosts, whWaits>>
    /\ WebhookFrame

\* The fetch of one suspended call settles: the call returns, rejects or starts
\* its backoff wait.
concurrentFetchSettles ==
    /\ \E i \in 1..Len(whInFlight), answer \in {"ok", "notOk", "error"} :
          LET call  == whInFlight[i]
          IN /\ call.pc = "fetching"
             /\ whInFlight' = IF AfterFetch(whConfig, call.attempt, answer).pc = "backoff"
                              THEN [whInFlight EXCEPT ![i].pc = "backoff"]
                              ELSE RemoveAt(whInFlight, i)
             /\ rateLimitCount' = CountersAtResume(rateLimitCount, call)
    /\ UNCHANGED <<whConfig, now, whPc, whCall, whAttempt, whPosts, whWaits, whAccepted,
                   whCalls>>
    /\ WebhookFrame

\* The backoff timer of one suspended call fires: its next fetch.
concurrentBackoffElapses ==
    /\ \E i \in 1..Len(whInFlight) :
          /\ whInFlight[i].pc = "backoff"
          /\ whInFlight' = [whInFlight EXCEPT ![i].pc = "fetching",
                                              ![i].attempt = whInFlight[i].attempt + 1]
          /\ rateLimitCount' = CountersAtResume(rateLimitCount, whInFlight[i])
    /\ UNCHANGED <<whConfig, now, whPc, whCall, whAttempt, whPosts, whWaits, whAccepted,
                   whCalls>>
    /\ WebhookFrame

NextConcurrent ==
    \/ concurrentSendWebhook
    \/ concurrentFetchSettles
    \/ concurrentBackoffElapses

SpecConcurrent == InitWebhook /\ [][NextConcurrent]_vars

\* C22: whatever the interleaving of running and suspended calls, every counter
\* equals the number of calls accepted for its endpoint and bucket (no update is
\* lost) and that number never exceeds the configured cap.
C22_CountersAtomic ==
    "rateLimit" \in DOMAIN whConfig =>
        /\ \A k \in DOMAIN whAccepted :
              /\ Coalesce(rateLimitCount, <<k[1], "minute", k[2]>>, 0)
                    = AcceptedInMinute(k[1], k[2])
              /\ Coalesce(rateLimitCount, <<k[1], "hour", (k[2] * MinuteMs) \div HourMs>>, 0)
                    = AcceptedInHour(k[1], (k[2] * MinuteMs) \div HourMs)
              /\ AcceptedInMinute(k[1], k[2]) <= whConfig.rateLimit.maxPerMinute
              /\ AcceptedInHour(k[1], (k[2] * MinuteMs) \div HourMs)
                    <= whConfig.rateLimit.maxPerHour
        /\ \A key \in DOMAIN rateLimitCount :
              key[2] = "minute" => <<key[1], key[3]>> \in DOMAIN whAccepted

\* Two calls are suspended, one of them in its backoff wait, and a call was
\* accepted for the same endpoint and minute after that one was suspended.
C22_Witness ==
    /\ "rateLimit" \in DOMAIN whConfig
    /\ Len(whInFlight) = 2
    /\ \E i \in 1..2 :
          /\ whInFlight[i].pc = "backoff"
          /\ whInFlight[i].counts # rateLimitCount
          /\ AcceptedInMinute(whInFlight[i].endpoint, now \div MinuteMs) >= 2

(***************************************************************************)
(* Claims about the retries of sendRequest.  whCall.answers holds the      *)
(* answers to the fetches of the call so far, whPosts its POST attempts    *)
(* and whWaits its backoff waits.                                          *)
(***************************************************************************)
CallEnded == whPc \in {"returned", "rejected"}

EveryAnswer(kind) ==
    /\ whCall.answers # <<>>
    /\ \A i \in 1..Len(whCall.answers) : whCall.answers[i] = kind

\* C23: a call whose every attempt is answered with a non-2xx status makes exactly
\* maxAttempts POST attempts and then ends with an error for its caller.
C23_HttpErrorsSurface ==
    (CallEnded /\ EveryAnswer("notOk"))
        => /\ Len(whPosts) = maxAttemptsOf(whConfig)
           /\ whPc = "rejected"

\* C24: a call whose every attempt fails with a transport error or a timeout abort
\* makes exactly maxAttempts POST attempts and rejects with the error of the last
\* attempt; a call never rejects with the error of an earlier attempt.
C24_TransportErrorsPropagate ==
    /\ (CallEnded /\ EveryAnswer("error"))
          => /\ Len(whPosts) = maxAttemptsOf(whConfig)
             /\ whPc = "rejected"
             /\ whCall.thrown = maxAttemptsOf(whConfig) - 1
    /\ whPc = "rejected"
          => /\ whCall.thrown = Len(whCall.answers) - 1
             /\ whCall.thrown = maxAttemptsOf(whConfig) - 1
             /\ whCall.answers[Len(whCall.answers)] = "error"
    /\ (InCall /\ whPc # "rejected") => whCall.thrown = -1

\* Three attempts failed with an error and the call rejects with the third.
C24_Witness ==
    /\ whPc = "rejected"
    /\ whCall.answers = <<"error", "error", "error">>
    /\ Len(whPosts) = 3
    /\ whCall.thrown = 2

MaxKeyLen == 5   \* longest API key

\* The API keys: the strings over two characters.
ApiKeys == SeqsUpTo({"a", "b"}, MaxKeyLen)

\* String.prototype.slice(start) for start < 0
sliceFromEnd(str, start) ==
    LET from == IF Len(str) + start < 0 THEN 0 ELSE Len(str) + start
    IN SubSeq(str, from + 1, Len(str))

createPayload_WholeKey(simulation, transaction, userWallet, apiKey, blocked) ==
    [ event       |-> [type |-> IF blocked THEN "TRANSACTION_BLOCKED"
                                           ELSE "TRANSACTION_ANALYZED",
                       version |-> "1.0"],
      context     |-> [apiKey |-> apiKey, walletAddress |-> userWallet],
      transaction |-> [numInstructions |-> Len(transaction.instructions)],
      analysis    |-> [riskScore |-> simulation.riskScore,
                       riskLevel |-> simulation.riskLevel,
                       threats   |-> [i \in 1..Len(simulation.threats) |->
                                        [type |-> simulation.threats[i].type,
                                         severity |-> simulation.threats[i].severity]]],
      financial   |-> [solTransferred |-> SumAmounts(simulation.financial.solTransfers)],
      action      |-> [blocked |-> blocked, userNotified |-> FALSE] ]

createPayload(simulation, transaction, userWallet, apiKey, blocked) ==
    [ event       |-> [type |-> IF blocked THEN "TRANSACTION_BLOCKED"
                                           ELSE "TRANSACTION_ANALYZED",
                       version |-> "1.0"],
      context     |-> [apiKey |-> sliceFromEnd(apiKey, -4), walletAddress |-> userWallet],
      transaction |-> [numInstructions |-> Len(transaction.instructions)],
      analysis    |-> [riskScore |-> simulation.riskScore,
                       riskLevel |-> simulation.riskLevel,
                       threats   |-> [i \in 1..Len(simulation.threats) |->
                                        [type |-> simulation.threats[i].type,
                                         severity |-> simulation.threats[i].severity]]],
      financial   |-> [solTransferred |-> SumAmounts(simulation.financial.solTransfers)],
      action      |-> [blocked |-> blocked, userNotified |-> FALSE] ]

InitPayload ==
    IdleScore /\ IdleRules /\ IdleDetect /\ IdleGuard /\ IdleRegistry /\ IdleWebhook

\* sendWebhook, lines 77-83: the payload of a call is created.
createPayloadCall ==
    /\ whPc = "idle"
    /\ \E simulation \in WebhookSimulations, blocked \in BOOLEAN, apiKey \in ApiKeys :
          whCall' = [simulation |-> simulation, transaction |-> [instructions |-> <<>>],
                     userWallet |-> "W", apiKey |-> apiKey, blocked |-> blocked,
                     payload |-> createPayload(simulation, [instructions |-> <<>>], "W",
                                               apiKey, blocked)]
    /\ whPc' = "payload"
    /\ UNCHANGED <<whConfig, rateLimitCount, now, whAttempt, whPosts, whWaits, whAccepted,
                   whCalls, whInFlight>>
    /\ WebhookFrame

\* The payload is handed on and the next call can be made.
createPayloadDone ==
    /\ whPc = "payload"
    /\ whPc' = "idle"
    /\ whCall' = NoCall
    /\ UNCHANGED <<whConfig, rateLimitCount, now, whAttempt, whPosts, whWaits, whAccepted,
                   whCalls, whInFlight>>
    /\ WebhookFrame

NextPayload == createPayloadCall \/ createPayloadDone

SpecPayload == InitPayload /\ [][NextPayload]_vars

\* The last four characters of a secret, all of it when it has fewer.
LastFour(secret) ==
    LET n == IF Len(secret) < 4 THEN Len(secret) ELSE 4
    IN [i \in 1..n |-> secret[Len(secret) - n + i]]

\* The payload of the same call made with another secret.
PayloadWith(secret) ==
    createPayload(whCall.simulation, whCall.transaction, whCall.userWallet, secret,
                  whCall.blocked)

WithoutSecret(payload) == [payload EXCEPT !.context.apiKey = <<>>]

\* C28: the secret field of the payload is the last four characters of the secret;
\* a call differing only in a secret with the same last four characters gives a
\* payload with the same secret field, and whatever the secret, every other field
\* of the payload is the same, so none carries an earlier character.
C28_SecretRedaction ==
    whPc = "payload" =>
        /\ whCall.payload.context.apiKey = LastFour(whCall.apiKey)
        /\ \A other \in ApiKeys :
              /\ LastFour(other) = LastFour(whCall.apiKey)
                    => PayloadWith(other).context = whCall.payload.context
              /\ WithoutSecret(PayloadWith(other)) = WithoutSecret(whCall.payload)

\* A payload was made from a secret of more than four characters.
C28_Witness ==
    /\ whPc = "payload"
    /\ Len(whCall.apiKey) > 4
    /\ whCall.payload.context.apiKey = <<"b", "a", "a", "b">>
    /\ whCall.apiKey[1] = "a"

(***************************************************************************)
(* Claims about single detectors, on the calls of detectAllThreats that    *)
(* return: detAll holds what the detectors emitted, in detector order, and *)
(* detOut what deduplicateThreats kept of it.                              *)
(***************************************************************************)
\* The threats of the list that have the kind, the severity and the blocked flag.
ThreatsLike(ths, type, severity, blocked) ==
    SelectSeq(ths, LAMBDA t : /\ t.type = type
                              /\ t.severity = severity
                              /\ t.blockedByDefault = blocked)

\* The sum of the SOL transfers of the call is above 10 SOL.
AboveDrainThreshold ==
    LET total == SumAmounts(detInput.simulation.financial.solTransfers)
    IN total.sol > 10 \/ (total.sol = 10 /\ total.lamports >= 1)

\* C29: the drain detector emits the CRITICAL blocked WALLET_DRAIN threat, once, iff
\* the SOL transfers of the context sum to strictly more than 10 SOL; a sum of
\* exactly 10 SOL emits none.
C29_DrainThresholdStrict ==
    detPc = "returned" =>
        /\ Len(ThreatsLike(detAll, "WALLET_DRAIN", "CRITICAL", TRUE))
              = IF AboveDrainThreshold THEN 1 ELSE 0
        /\ Len(ThreatsLike(detOut, "WALLET_DRAIN", "CRITICAL", TRUE))
              = IF AboveDrainThreshold THEN 1 ELSE 0
        /\ SumAmounts(detInput.simulation.financial.solTransfers) = EXCESSIVE_SOL_TRANSFER
              => ThreatsLike(detAll, "WALLET_DRAIN", "CRITICAL", TRUE) = <<>>

\* Transfers of 10 SOL and 1 lamport in all are reported.
C29_Witness ==
    /\ detPc = "returned"
    /\ SumAmounts(detInput.simulation.financial.solTransfers) = Lamports(10, 1)
    /\ Len(ThreatsLike(detOut, "WALLET_DRAIN", "CRITICAL", TRUE)) = 1

\* The authority changes of the call of kind Delegate.
DelegateChangesOfCall ==
    SelectSeq(AuthorityChangesOf(detInput.simulation),
              LAMBDA change : change.authorityType = "Delegate")

\* The new authority is present and is not the subject wallet.
ForeignDelegate(change) ==
    change.newAuthority # NULL /\ change.newAuthority # detInput.userWallet

SeverityOfReputation(reputation) ==
    CASE reputation = 0                     -> "CRITICAL"
      [] reputation > 0 /\ reputation < 30  -> "HIGH"
      [] reputation >= 30                   -> "MEDIUM"

C32_ApprovalCheckIndependent ==
    detPc = "returned" =>
        /\ detInput.transaction.instructions > 3
              => Len(ThreatsLike(detOut, "PHISHING_SIGNATURE", "MEDIUM", FALSE)) = 1
        /\ Len(SelectSeq(detOut, LAMBDA t : /\ t.type = "PHISHING_SIGNATURE"
                                            /\ t.severity = "HIGH")) <= 1

\* What the phishing detector itself emits is as C32 says: the approval threat for
\* more than 3 instructions, and one HIGH threat however many patterns match.
PhishingEmitsBoth ==
    detPc = "returned" =>
        /\ Len(ThreatsLike(detAll, "PHISHING_SIGNATURE", "MEDIUM", FALSE))
              = IF detInput.transaction.instructions > 3 THEN 1 ELSE 0
        /\ Len(ThreatsLike(detAll, "PHISHING_SIGNATURE", "HIGH", TRUE)) <= 1

\* C34: a call that a filter drops leaves the rate-limit counters as they were at
\* the call, those of its endpoint included.
C34_FilteredCallKeepsCounters ==
    (InCall /\ whCall.endpoint # NULL /\ FilterFails)
        => rateLimitCount = whCall.before

\* C35: once an attempt gets a 2xx answer the call returns without error and makes
\* no further POST: the answer is the last one of the call, a call gets at most one
\* 2xx answer, and it makes at most maxAttempts POST attempts.
C35_StopsAtFirstSuccess ==
    InCall =>
        /\ Len(whPosts) <= maxAttemptsOf(whConfig)
        /\ Len(whCall.answers) <= Len(whPosts)
        /\ \A i \in 1..Len(whCall.answers) :
              whCall.answers[i] = "ok"
                 => /\ i = Len(whCall.answers)
                    /\ whPc = "returned"
                    /\ Len(whPosts) = i
                    /\ whCall.thrown = -1

\* The third and last attempt of a call got the 2xx answer.
C35_Witness ==
    /\ whPc = "returned"
    /\ whCall.answers = <<"error", "notOk", "ok">>
    /\ Len(whPosts) = 3

\* C40: a call the rate limiter accepts adds one to the minute counter and one to
\* the hour counter of its endpoint, whatever the number of its delivery attempts;
\* a call it rejects, or that has no endpoint, changes no counter; no counter of
\* another endpoint, and no other bucket, ever changes during a call.
C40_PerCallAccounting ==
    (InCall /\ "rateLimit" \in DOMAIN whConfig) =>
        LET minuteKey == <<whCall.endpoint, "minute", now \div MinuteMs>>
            hourKey   == <<whCall.endpoint, "hour", now \div HourMs>>
        IN /\ whCall.accepted
                 => /\ rateLimitCount[minuteKey] = Coalesce(whCall.before, minuteKey, 0) + 1
                    /\ rateLimitCount[hourKey] = Coalesce(whCall.before, hourKey, 0) + 1
                    /\ DOMAIN rateLimitCount = DOMAIN whCall.before \cup {minuteKey, hourKey}
           /\ ~whCall.accepted => rateLimitCount = whCall.before
           /\ \A key \in DOMAIN whCall.before :
                 key \notin {minuteKey, hourKey} => rateLimitCount[key] = whCall.before[key]

\* An accepted call made two attempts, with counters of another endpoint in place.
C40_Witness ==
    /\ InCall
    /\ "rateLimit" \in DOMAIN whConfig
    /\ whCall.accepted
    /\ Len(whPosts) = 2
    /\ \E key \in DOMAIN whCall.before : key[1] # whCall.endpoint
    /\ rateLimitCount[<<whCall.endpoint, "minute", now \div MinuteMs>>] = 2

\* The timers of sendRequest fire and every fetch is answered: by a response, by a
\* transport error or by the abort of its timeout (the answer "error").  Both
\* steps change whPc, so fairness is stated on whPc.
SpecWebhookLive ==
    SpecWebhook /\ WF_whPc(fetchSettles) /\ WF_whPc(backoffElapses)

\* C36: every sendWebhook call eventually returns or rejects, whatever the answers
\* to its attempts.
C36_NotifyTerminates == InCall ~> CallEnded

\* A call against an endpoint that never answers ended after its three timeouts.
C36_Witness ==
    /\ CallEnded
    /\ whAttempt = 2
    /\ EveryAnswer("error")
    /\ Len(whWaits) = 2

\* C39: every rule the engine holds is stored under its own name: getRule(n) is
\* absent or a rule whose name is n, after any sequence of registry operations.
C39_KeyNameConsistency ==
    \A n \in RegistryNames :
        KeyIndex(rules, n) > 0 => rules[KeyIndex(rules, n)].value.name = n

(***************************************************************************)
(* rules/engine.ts: the registry operations and evaluateRules on one       *)
(* engine.  A registry operation is a synchronous call made while no       *)
(* evaluateRules call is suspended; evaluateRules awaits one condition at  *)
(* a time (line 124).                                                      *)
(***************************************************************************)
orderAddRule == evalPc = "idle" /\ registryAddRule

orderRemoveRule == evalPc = "idle" /\ registryRemoveRule

orderUpdateRule == evalPc = "idle" /\ registryUpdateRule

NextOrder ==
    \/ orderAddRule
    \/ orderRemoveRule
    \/ orderUpdateRule
    \/ evaluateRules
    \/ conditionSettles
    \/ evaluateRulesDone

SpecOrder == InitRegistry /\ [][NextOrder]_vars

\* The keys under which an engine holds its rules, in the order of the map.
KeysOf(entries) == [i \in 1..Len(entries) |-> entries[i].key]

\* The place of the rule that a threat of an evaluation came from.
RECURSIVE PlacesOf(_, _, _)
PlacesOf(entries, ths, from) ==
    IF ths = <<>> THEN <<>>
    ELSE LET later == { i \in from..Len(entries) :
                           /\ entries[i].value.name = ths[1].evidence.data.ruleName
                           /\ entries[i].value.severity = ths[1].severity }
         IN IF later = {} THEN <<0>>
            ELSE LET p == CHOOSE i \in later : \A j \in later : i <= j
                 IN <<p>> \o PlacesOf(entries, Tail(ths), p + 1)

\* C37: evaluateRules returns its threats in the order in which the rules were
\* registered: a name that is added goes behind all held ones, addRule with a held
\* name and updateRule leave the order as it was, removeRule takes one name out, and
\* the threats of a call come from rules at rising places, each condition being
\* called only when the one before it has settled.
C37_RegistrationOrder ==
    /\ regOp.op = "addRule" =>
          KeysOf(rules) = IF KeyIndex(regBefore, regOp.name) > 0
                          THEN KeysOf(regBefore)
                          ELSE Append(KeysOf(regBefore), regOp.name)
    /\ regOp.op = "updateRule" => KeysOf(rules) = KeysOf(regBefore)
    /\ regOp.op = "removeRule" =>
          KeysOf(rules) = SelectSeq(KeysOf(regBefore), LAMBDA k : k # regOp.name)
    /\ evalPc = "awaiting" =>
          /\ evalRule = rules[evalIdx].value
          /\ condCalls = [i \in 1..evalIdx |-> rules[i].value]
          /\ 0 \notin { PlacesOf(SubSeq(rules, 1, evalIdx - 1), evalThreats, 1)[t] :
                           t \in 1..Len(evalThreats) }
    /\ evalPc = "returned" =>
          /\ 0 \notin { PlacesOf(rules, evalThreats, 1)[t] : t \in 1..Len(evalThreats) }
          /\ [t \in 1..Len(evalThreats) |-> evalThreats[t].evidence.data.ruleName]
                = ViolatedNames(evalSim)

\* An evaluation has returned two threats after addRule replaced the first of two
\* held rules, which did not hold before, by one whose condition holds: the threat of
\* the replacing rule comes first.
C37_Witness ==
    /\ evalPc = "returned"
    /\ regOp.op = "addRule"
    /\ Len(regBefore) = 2
    /\ KeyIndex(regBefore, regOp.name) = 1
    /\ regBefore[1].value.condition = "false"
    /\ Len(evalThreats) = 2
    /\ PlacesOf(rules, evalThreats, 1) = <<1, 2>>
    /\ evalThreats[1].evidence.data.ruleName = regOp.name

(***************************************************************************)
(* rules/engine.ts: two evaluateRules calls on one engine whose rules are  *)
(* not changed meanwhile.  Each call has its own simulation, context,      *)
(* iterator of this.rules.values() and threats array (lines 106-110); the  *)
(* calls take turns at their awaits (line 124).  The first call is that of *)
(* evaluateRules, conditionSettles and evaluateRulesDone; the second keeps *)
(* its place and locals in evalOther.                                      *)
(***************************************************************************)
\* evaluateRules(simulation, context) is called a second time, for a context of
\* another wallet, and runs to its first await.
otherEvaluateRules ==
    /\ evalOther.pc = "idle"
    /\ \E sim \in RuleSimulations, ctx \in { [userWallet |-> "V"] } :
          LET run == RunLoop(rules, sim, 0, <<>>) IN
          evalOther' = [pc |-> run.pc, sim |-> sim, ctx |-> ctx, idx |-> run.idx,
                        rule |-> run.rule, threats |-> <<>>, began |-> evalPc]
    /\ UNCHANGED <<rules, evalPc, evalSim, evalCtx, evalIdx, evalRule, evalThreats,
                   condCalls, scoreVars, detVars, guardVars, regVars, whVars>>

\* The condition the second call awaits settles, if the threats array were a field
\* of the engine that both calls push to.
otherConditionSettles_SharedArray ==
    /\ evalOther.pc = "awaiting"
    /\ LET settled == Settle(evalOther.rule, evalOther.sim, evalOther.ctx, evalThreats)
           run     == RunLoop(rules, evalOther.sim, evalOther.idx, <<>>)
       IN evalOther' = [evalOther EXCEPT !.pc = run.pc, !.idx = run.idx,
                                         !.rule = run.rule,
                                         !.threats = settled.threats]
    /\ UNCHANGED <<rules, evalPc, evalSim, evalCtx, evalIdx, evalRule, evalThreats,
                   condCalls, scoreVars, detVars, guardVars, regVars, whVars>>

\* The condition the second call awaits settles: lines 124-152 for the awaited rule,
\* then its loop runs on to its next await or to the return.
otherConditionSettles ==
    /\ evalOther.pc = "awaiting"
    /\ LET settled == Settle(evalOther.rule, evalOther.sim, evalOther.ctx,
                             evalOther.threats)
           run     == RunLoop(rules, evalOther.sim, evalOther.idx, <<>>)
       IN IF settled.rejected
          THEN evalOther' = [evalOther EXCEPT !.pc = "rejected"]
          ELSE evalOther' = [evalOther EXCEPT !.pc = run.pc, !.idx = run.idx,
                                              !.rule = run.rule,
                                              !.threats = settled.threats]
    /\ UNCHANGED <<rules, evalPc, evalSim, evalCtx, evalIdx, evalRule, evalThreats,
                   condCalls, scoreVars, detVars, guardVars, regVars, whVars>>

\* The caller of the second call takes the settled promise.
otherEvaluateRulesDone ==
    /\ evalOther.pc \in {"returned", "rejected"}
    /\ evalOther' = NoEval
    /\ UNCHANGED <<rules, evalPc, evalSim, evalCtx, evalIdx, evalRule, evalThreats,
                   condCalls, scoreVars, detVars, guardVars, regVars, whVars>>

NextInterleaved ==
    \/ evaluateRules
    \/ conditionSettles
    \/ evaluateRulesDone
    \/ otherEvaluateRules
    \/ otherConditionSettles
    \/ otherEvaluateRulesDone

SpecInterleaved == InitRegistry /\ [][NextInterleaved]_vars

\* C38: of two evaluateRules calls on one engine that take turns at their awaits
\* while the rules stay as they are, each returns the threats it returns when it
\* runs alone, and neither rejects.
C38_EvaluationsIndependent ==
    /\ evalPc # "rejected"
    /\ evalOther.pc # "rejected"
    /\ evalPc = "returned" =>
          evalThreats = EvaluateFrom(rules, evalSim, evalCtx, 0, <<>>).threats
    /\ evalOther.pc = "returned" =>
          evalOther.threats
             = EvaluateFrom(rules, evalOther.sim, evalOther.ctx, 0, <<>>).threats

\* Both calls have returned two threats each, for their own wallets, and the second
\* call was made while the first was suspended.
C38_Witness ==
    /\ evalPc = "returned"
    /\ evalOther.pc = "returned"
    /\ evalOther.began = "awaiting"
    /\ Len(evalThreats) = 2
    /\ Len(evalOther.threats) = 2
    /\ evalThreats[1].affectedAccounts # evalOther.threats[1].affectedAccounts

====
